---- MODULE Spec2Model ----
(***************************************************************************)
(* Model of the SX126x serial LoRa module driver                           *)
(* (netrajaal/Signal-bridge-POC/BridgeX-ESP/main/sx1262.c and sx1262.h):   *)
(* the register codec, the configuration session run by sx1262_init and    *)
(* the handle life cycle.                                                  *)
(***************************************************************************)
EXTENDS Integers, Sequences, FiniteSets, TLC

(***************************************************************************)
(* Program constants (sx1262.h).                                           *)
(***************************************************************************)
SX1262_CFG_HEADER_PERSISTENT == 192
SX1262_CFG_HEADER_VOLATILE == 194
SX1262_RESPONSE_SUCCESS == 193
SX1262_FREQ_400MHZ_START == 410
SX1262_FREQ_400MHZ_END == 493
SX1262_FREQ_900MHZ_START == 850
SX1262_FREQ_900MHZ_END == 930
SX1262_CFG_RETRY_ATTEMPTS == 3
SX1262_UART_CONFIG_BAUD == 9600
SX1262_UART_NORMAL_BAUD == 115200

\* sizeof(response) in sx1262_send_config: the most one read returns.
RESPONSE_SIZE == 12

(***************************************************************************)
(* Bounds of the model.                                                    *)
(***************************************************************************)
\* Number of API calls (sx1262_init / sx1262_deinit) made on the handle.
MaxCalls == 2

(***************************************************************************)
(* C integer operators on unsigned values.                                 *)
(***************************************************************************)
RECURSIVE BitOr(_, _)
BitOr(a, b) ==
    IF a = 0 THEN b
    ELSE IF b = 0 THEN a
    ELSE (IF a % 2 = 1 \/ b % 2 = 1 THEN 1 ELSE 0) + 2 * BitOr(a \div 2, b \div 2)

\* (x >> 8) & 0xFF
HighByte(x) == (x \div 256) % 256

\* x & 0xFF
LowByte(x) == x % 256

\* Conversion of an int to uint16_t.
U16(x) == x % 65536

(***************************************************************************)
(* Register code lookups (sx1262.c:78-136).                                *)
(***************************************************************************)
sx1262_get_uart_baud_reg(baud) ==
    CASE baud = 1200 -> 0
      [] baud = 2400 -> 32
      [] baud = 4800 -> 64
      [] baud = 9600 -> 96
      [] baud = 19200 -> 128
      [] baud = 38400 -> 160
      [] baud = 57600 -> 192
      [] baud = 115200 -> 224
      [] OTHER -> 96

\* A lookup whose default is the first table entry instead of 2400.
air_speed_reg_default_first(air_speed) ==
    CASE air_speed = 1200 -> 1
      [] air_speed = 2400 -> 2
      [] air_speed = 4800 -> 3
      [] air_speed = 9600 -> 4
      [] air_speed = 19200 -> 5
      [] air_speed = 38400 -> 6
      [] air_speed = 62500 -> 7
      [] OTHER -> 1

sx1262_get_air_speed_reg(air_speed) ==
    CASE air_speed = 1200 -> 1
      [] air_speed = 2400 -> 2
      [] air_speed = 4800 -> 3
      [] air_speed = 9600 -> 4
      [] air_speed = 19200 -> 5
      [] air_speed = 38400 -> 6
      [] air_speed = 62500 -> 7
      [] OTHER -> 2

sx1262_get_buffer_size_reg(buffer_size) ==
    CASE buffer_size = 240 -> 0
      [] buffer_size = 128 -> 64
      [] buffer_size = 64 -> 128
      [] buffer_size = 32 -> 192
      [] OTHER -> 0

sx1262_get_power_reg(power) ==
    CASE power = 22 -> 0
      [] power = 17 -> 1
      [] power = 13 -> 2
      [] power = 10 -> 3
      [] OTHER -> 0

(***************************************************************************)
(* sx1262_build_config_reg (sx1262.c:141-167).                             *)
(***************************************************************************)
\* A band selection that tests the 400 MHz band first.
reg_freq_offset_400_first(freq) ==
    IF freq >= SX1262_FREQ_400MHZ_START THEN U16(freq - SX1262_FREQ_400MHZ_START)
    ELSE IF freq >= SX1262_FREQ_900MHZ_START THEN U16(freq - SX1262_FREQ_900MHZ_START)
    ELSE 0

\* The uint16_t freq_offset local of sx1262_build_config_reg.
reg_freq_offset(freq) ==
    IF freq >= SX1262_FREQ_900MHZ_START THEN U16(freq - SX1262_FREQ_900MHZ_START)
    ELSE IF freq >= SX1262_FREQ_400MHZ_START THEN U16(freq - SX1262_FREQ_400MHZ_START)
    ELSE 0

\* A register builder that stores the address low byte first.
build_config_reg_addr_swapped(config) ==
    << IF config.persistent_config THEN SX1262_CFG_HEADER_PERSISTENT
                                   ELSE SX1262_CFG_HEADER_VOLATILE,
       0,
       9,
       LowByte(config.addr),
       HighByte(config.addr),
       LowByte(config.net_id),
       BitOr(sx1262_get_uart_baud_reg(SX1262_UART_NORMAL_BAUD),
             sx1262_get_air_speed_reg(config.air_speed)),
       BitOr(BitOr(sx1262_get_buffer_size_reg(config.buffer_size),
                   sx1262_get_power_reg(config.power)), 32),
       LowByte(reg_freq_offset(config.freq)),
       BitOr(67, IF config.rssi_enabled THEN 128 ELSE 0),
       HighByte(config.crypt_key),
       LowByte(config.crypt_key) >>

\* cfg_reg[0..11] as the sequence cfg_reg[1..12].
sx1262_build_config_reg(config) ==
    << IF config.persistent_config THEN SX1262_CFG_HEADER_PERSISTENT
                                   ELSE SX1262_CFG_HEADER_VOLATILE,
       0,
       9,
       HighByte(config.addr),
       LowByte(config.addr),
       LowByte(config.net_id),
       BitOr(sx1262_get_uart_baud_reg(SX1262_UART_NORMAL_BAUD),
             sx1262_get_air_speed_reg(config.air_speed)),
       BitOr(BitOr(sx1262_get_buffer_size_reg(config.buffer_size),
                   sx1262_get_power_reg(config.power)), 32),
       LowByte(reg_freq_offset(config.freq)),
       BitOr(67, IF config.rssi_enabled THEN 128 ELSE 0),
       HighByte(config.crypt_key),
       LowByte(config.crypt_key) >>

(***************************************************************************)
(* State.                                                                  *)
(***************************************************************************)
VARIABLES
    pc,          \* position of the running call ("idle" between calls)
    op,          \* the API function being executed
    calls,       \* number of calls completed
    cfg,         \* *config of the running sx1262_init
    cfgNull,     \* config == NULL
    handleNull,  \* handle == NULL
    handle,      \* the caller's sx1262_handle_t
    m0, m1,      \* levels driven on the M0 / M1 lines
    uart,        \* per UART port: driver installed, baud rate
    rxbuf,       \* bytes buffered in the UART driver's receive ring
    cfg_reg,     \* cfg_reg[12] of sx1262_init
    i,           \* loop counter of sx1262_init
    attempt,     \* loop counter of sx1262_send_config
    cfgRet,      \* the local ret of sx1262_init
    ret,         \* value returned by the call ("none" while it runs)
    handlePre,   \* history: the handle when the call began
    linesPre,    \* history: <<m0, m1>> when the call began
    uartPre,     \* history: uart when the call began
    writes,      \* history: uart_write_bytes calls of this sx1262_init
    nGpio,       \* history: gpio_set_level calls of this call
    nInstall,    \* history: uart_driver_install calls of this call
    delays,      \* history: retry delays (SX1262_CFG_RETRY_DELAY_MS) waited
    modAckAt,    \* history: first write the module answered with 0xC1 (0: none)
    ackRead,     \* history: a read after a full write began with 0xC1
    steps,       \* history: operations performed after the acknowledgement
    lookup,      \* register-code lookup under test: kind, input, code
    data,        \* the caller's message: data[0..len) of sx1262_send
    target_addr, \* target_addr of sx1262_send
    buffer_size, \* buffer_size of sx1262_receive
    rssiNull,    \* rssi == NULL in sx1262_receive
    packet,      \* packet[0..packet_len) handed to uart_write_bytes by this call
    txWritten,   \* history: what uart_write_bytes returned to this call
    wire,        \* bytes the channel accepted and the radio has not delivered yet
    buffer,      \* the caller's buffer[0..buffer_size)
    received_len, \* the caller's *received_len
    rssi,        \* the caller's *rssi
    temp_buffer, \* history: the bytes uart_read_bytes returned to this call
    readLen,     \* history: the value uart_read_bytes returned to this call
    outPre,      \* history: <<buffer, received_len, rssi>> when the call began
    rxPre,       \* history: rxbuf when the call began
    mismatch,    \* history: a read-back in sx1262_set_mode differed, this call
    sinceWrite,  \* history: "flush", "delay" done since the last register write
    air,         \* bytes the peer's radio has sent that have not arrived yet
    frameIn,     \* history: the frame last put on the air
    prevTemp,    \* history: temp_buffer of the sx1262_receive call before
    ready,       \* history: the last sx1262_init on the handle returned ESP_OK
                 \* and no sx1262_deinit followed
    writer,      \* the UART writer (uart-interrupt-wakeup/main/main.c): its
                 \* statics, the message and the packet of its last write
    lora         \* the RadioLib wrapper (lora_sx1262.cpp): its statics, the
                 \* radio, and the call in progress

vars == << pc, op, calls, cfg, cfgNull, handleNull, handle, m0, m1, uart, rxbuf,
           cfg_reg, i, attempt, cfgRet, ret, handlePre, linesPre, uartPre,
           writes, nGpio, nInstall, delays, modAckAt, ackRead,
           steps, lookup, data, target_addr, buffer_size, rssiNull, packet,
           txWritten, wire, buffer, received_len, rssi, temp_buffer, readLen,
           outPre, rxPre, mismatch, sinceWrite, air, frameIn, prevTemp,
           ready, lora, writer >>

\* The variables of the link model (sx1262_send, sx1262_receive), and the
\* RadioLib wrapper, which the UART driver never touches.
linkVars == << data, target_addr, buffer_size, rssiNull, packet, txWritten, wire,
              buffer, received_len, rssi, temp_buffer, readLen, outPre, rxPre,
              air, frameIn, prevTemp, lora, writer >>

(***************************************************************************)
(* Inputs.                                                                 *)
(***************************************************************************)
\* UART ports: UART_NUM_0 and UART_NUM_1.
Ports == {0, 1}

\* Frequencies around every band edge, and the documented examples.
FreqValues == {409, 410, 430, 493, 494, 500, 849, 850, 868, 930, 931}

\* Configurations passed to sx1262_init in the session model.
Configs ==
    [ uart_num : {1}, m0_pin : {4}, m1_pin : {5},
      addr : {1, 43981}, freq : FreqValues, power : {22}, air_speed : {2400},
      net_id : {0}, buffer_size : {240}, crypt_key : {0},
      rssi_enabled : BOOLEAN, persistent_config : {FALSE} ]

\* Placeholder for *config when config == NULL (never read).
NoConfig ==
    [ uart_num |-> 0, m0_pin |-> 0, m1_pin |-> 0, addr |-> 0, freq |-> 0,
      power |-> 0, air_speed |-> 0, net_id |-> 0, buffer_size |-> 0,
      crypt_key |-> 0, rssi_enabled |-> FALSE, persistent_config |-> FALSE ]

\* Contents of a handle that no sx1262_init has filled yet.
HandleGarbage ==
    { [ uart_num |-> 0, m0_pin |-> 0, m1_pin |-> 0, addr |-> 0, freq |-> 0,
        offset_freq |-> 0, start_freq |-> 0, is_configured |-> FALSE,
        rssi_enabled |-> FALSE ],
      [ uart_num |-> 0, m0_pin |-> 7, m1_pin |-> 9, addr |-> 65535, freq |-> 500,
        offset_freq |-> 300, start_freq |-> 77, is_configured |-> TRUE,
        rssi_enabled |-> TRUE ] }

\* What the module puts on the line after a complete register write.
Responses(reg) ==
    { << >>,
      << 193 >>,
      << 193 >> \o Tail(reg),
      << 192 >>,
      << 255, 255, 255 >>,
      << 255, 255, 255, 255, 255, 255, 255, 255, 255, 255, 255, 255, 255 >> }

\* Byte counts uart_write_bytes may report for a 12-byte write.
WriteCounts == {12, 5}

UartClosed == [ installed |-> FALSE, baud |-> 0 ]

(***************************************************************************)
(* Helpers of the session model.                                           *)
(***************************************************************************)
Min(a, b) == IF a < b THEN a ELSE b

\* The first n elements of s, and what follows them.
Take(s, n) == SubSeq(s, 1, Min(n, Len(s)))
Drop(s, n) == SubSeq(s, Min(n, Len(s)) + 1, Len(s))

\* Levels <<M0, M1>> driven by sx1262_enter_config_mode / sx1262_exit_config_mode.
\* Configuration-mode levels with M1 left low.
enter_config_mode_m1_low == << FALSE, FALSE >>

sx1262_enter_config_mode == << FALSE, TRUE >>

\* Normal-mode levels with M0 left high.
exit_config_mode_m0_high == << TRUE, FALSE >>

sx1262_exit_config_mode == << FALSE, FALSE >>

\* Levels gpio_get_level may return after the lines were driven: the driven
\* levels, or lines held low or high by the board (sx1262.c:39-40).
ReadBacks(driven) == { driven, << FALSE, FALSE >>, << TRUE, TRUE >> }

\* The verification of sx1262_set_mode (sx1262.c:50): it logs and returns.
set_mode_mismatch(driven, read) ==
    read[1] # driven[1] \/ read[2] # driven[2]

\* ESP-IDF uart_driver_install followed by uart_param_config(baud).
uart_driver_install(u, port, baud) ==
    [u EXCEPT ![port] = [ installed |-> TRUE, baud |-> baud ]]

\* ESP-IDF uart_driver_delete: no effect on a port without a driver.
uart_driver_delete(u, port) ==
    IF port \in DOMAIN u THEN [u EXCEPT ![port] = UartClosed] ELSE u

\* A validation that accepts everything from 410 to 930 MHz.
init_freq_invalid_one_range(freq) ==
    freq < SX1262_FREQ_400MHZ_START \/ freq > SX1262_FREQ_900MHZ_END

\* The frequency test of sx1262_init (sx1262.c:288-289).
init_freq_invalid(freq) ==
    /\ (freq < SX1262_FREQ_400MHZ_START \/ freq > SX1262_FREQ_400MHZ_END)
    /\ (freq < SX1262_FREQ_900MHZ_START \/ freq > SX1262_FREQ_900MHZ_END)

\* An acknowledgement test that takes any non-empty response as success.
config_acked_any(response) == Len(response) > 0

\* An acknowledgement test that wants the whole 12-byte echo.
config_acked_full_echo(response) ==
    Len(response) = RESPONSE_SIZE /\ response[1] = SX1262_RESPONSE_SUCCESS

\* len > 0 && response[0] == SX1262_RESPONSE_SUCCESS (sx1262.c:232).
config_acked(response) ==
    Len(response) > 0 /\ response[1] = SX1262_RESPONSE_SUCCESS

\* A store that forgets the is_configured flag.
init_store_handle_no_flag(h, config) ==
    [ uart_num |-> config.uart_num, m0_pin |-> config.m0_pin,
      m1_pin |-> config.m1_pin, addr |-> config.addr, freq |-> config.freq,
      offset_freq |->
          U16(config.freq - (IF config.freq >= SX1262_FREQ_900MHZ_START
                             THEN SX1262_FREQ_900MHZ_START
                             ELSE SX1262_FREQ_400MHZ_START)),
      start_freq |-> IF config.freq >= SX1262_FREQ_900MHZ_START
                     THEN SX1262_FREQ_900MHZ_START
                     ELSE SX1262_FREQ_400MHZ_START,
      is_configured |-> h.is_configured,
      rssi_enabled |-> config.rssi_enabled ]

\* The handle as stored by sx1262_init on success (sx1262.c:438-455).
init_store_handle(h, config) ==
    [ uart_num |-> config.uart_num, m0_pin |-> config.m0_pin,
      m1_pin |-> config.m1_pin, addr |-> config.addr, freq |-> config.freq,
      offset_freq |->
          U16(config.freq - (IF config.freq >= SX1262_FREQ_900MHZ_START
                             THEN SX1262_FREQ_900MHZ_START
                             ELSE SX1262_FREQ_400MHZ_START)),
      start_freq |-> IF config.freq >= SX1262_FREQ_900MHZ_START
                     THEN SX1262_FREQ_900MHZ_START
                     ELSE SX1262_FREQ_400MHZ_START,
      is_configured |-> TRUE,
      rssi_enabled |-> config.rssi_enabled ]

\* A reopen that keeps the configuration baud rate.
init_reopen_baud_config == SX1262_UART_CONFIG_BAUD

\* uart_config.baud_rate for the reopen (sx1262.c:421).
init_reopen_baud == SX1262_UART_NORMAL_BAUD

(***************************************************************************)
(* Initial state: nothing installed, mode lines at an unknown level, the   *)
(* handle not yet filled.                                                  *)
(***************************************************************************)
\* The RadioLib wrapper before lora_sx1262_init: the statics of
\* lora_sx1262.cpp:26-33, a radio that was never commanded, and no call in
\* progress.
LoraOff ==
    [ initialized |-> FALSE,      \* static bool initialized
      mode |-> "none",            \* the state the radio was last commanded to
      notify |-> 0,               \* pending task notifications of the DIO1 handler
      event |-> "none",           \* what the radio holds for the next readData
      lpc |-> "idle",             \* position of the wrapper call in progress
      fn |-> "none",              \* the wrapper function called
      ncalls |-> 0,               \* wrapper calls that have returned
      dataNull |-> FALSE,         \* argument data == NULL
      len |-> 0,                  \* argument len
      timeout_ms |-> 0,           \* argument timeout_ms
      err |-> "none",             \* the value returned
      started |-> FALSE,          \* history: this call commanded startReceive
      outcome |-> "none",         \* history: how this call's wait ended
      radio |-> FALSE,            \* static SX1262 *radio is non-null
      radio_module |-> FALSE,     \* static Module *radio_module is non-null
      stored |-> 0,               \* which pins and configuration are stored
      touched |-> FALSE,          \* history: this call used the radio object
      pending |-> "none",         \* history: the event whose notification the
                                  \* call's wait cleared before it waited
      pre |-> [ initialized |-> FALSE, radio |-> FALSE,
                radio_module |-> FALSE, stored |-> 0,
                mode |-> "none" ] ] \* history: the statics when the call began

\* The statics of uart-interrupt-wakeup/main/main.c as they are written
\* in the source (main.c:47-49).
WRITER_TARGET_ADDR == 200
WRITER_OWN_ADDR == 100
WRITER_FREQ == 868

\* The UART writer before app_main: its statics, and no packet written.
WriterOff ==
    [ wpc |-> "boot",             \* "boot" before app_main, then "task"
      target_addr |-> WRITER_TARGET_ADDR,
      own_addr |-> WRITER_OWN_ADDR,
      freq |-> WRITER_FREQ,
      freq_offset |-> 0,
      message_counter |-> 0,
      message |-> << >>,          \* the message of the last uart_write_packet
      written |-> << >>,          \* the bytes it handed to uart_write_bytes
      bytes_written |-> 0 ]       \* the value it returned

NoLookup == [ kind |-> "none", input |-> 0, code |-> 0 ]

\* The link variables where no sx1262_send or sx1262_receive is modelled.
LinkUnused ==
    /\ data = << >>
    /\ target_addr = 0
    /\ buffer_size = 0
    /\ rssiNull = FALSE
    /\ packet = << >>
    /\ txWritten = 0
    /\ wire = << >>
    /\ buffer = << >>
    /\ received_len = 0
    /\ rssi = 0
    /\ temp_buffer = << >>
    /\ readLen = 0
    /\ outPre = << buffer, received_len, rssi >>
    /\ rxPre = << >>
    /\ air = << >>
    /\ frameIn = << >>
    /\ prevTemp = << >>
    /\ lora = LoraOff

\* The UART driver, the link and the RadioLib wrapper before any call.
DriverInit ==
    /\ pc = "idle"
    /\ op = "none"
    /\ calls = 0
    /\ cfg = NoConfig
    /\ cfgNull = FALSE
    /\ handleNull = FALSE
    /\ handle \in HandleGarbage
    /\ m0 \in BOOLEAN
    /\ m1 \in BOOLEAN
    /\ uart = [p \in Ports |-> UartClosed]
    /\ rxbuf = << >>
    /\ cfg_reg = << >>
    /\ i = 0
    /\ attempt = 0
    /\ cfgRet = "ESP_FAIL"
    /\ ret = "none"
    /\ handlePre = handle
    /\ linesPre = << m0, m1 >>
    /\ uartPre = uart
    /\ writes = 0
    /\ nGpio = 0
    /\ nInstall = 0
    /\ delays = 0
    /\ modAckAt = 0
    /\ ackRead = FALSE
    /\ steps = << >>
    /\ lookup = NoLookup
    /\ mismatch = FALSE
    /\ sinceWrite = { }
    /\ ready = FALSE
    /\ LinkUnused

Init == DriverInit /\ writer = WriterOff

\* History variables as they stand when a call begins.
BeginCall ==
    /\ handlePre' = handle
    /\ linesPre' = << m0, m1 >>
    /\ uartPre' = uart
    /\ writes' = 0
    /\ nGpio' = 0
    /\ nInstall' = 0
    /\ delays' = 0
    /\ modAckAt' = 0
    /\ ackRead' = FALSE
    /\ steps' = << >>
    /\ i' = 0
    /\ attempt' = 0
    /\ cfgRet' = "ESP_FAIL"
    /\ cfg_reg' = << >>
    /\ mismatch' = FALSE
    /\ sinceWrite' = { }

(***************************************************************************)
(* sx1262_init (sx1262.c:281-459).                                         *)
(***************************************************************************)
\* Entry and argument validation (sx1262.c:283-292).
InitCall ==
    /\ pc = "idle"
    /\ calls < MaxCalls
    /\ \E cn \in BOOLEAN, hn \in BOOLEAN, c \in Configs \cup {NoConfig} :
          /\ cn <=> (c = NoConfig)
          /\ op' = "init"
          /\ cfg' = c
          /\ cfgNull' = cn
          /\ handleNull' = hn
          /\ IF cn \/ hn \/ init_freq_invalid(c.freq)
             THEN ret' = "ESP_ERR_INVALID_ARG" /\ pc' = "done"
             ELSE ret' = "none" /\ pc' = "gpio_init"
          /\ ready' = (hn /\ ready)
    /\ BeginCall
    /\ UNCHANGED << calls, handle, m0, m1, uart, rxbuf, lookup, linkVars >>

\* gpio_config and both lines driven high (sx1262.c:304-342).
InitGpio ==
    /\ pc = "gpio_init"
    /\ m0' = TRUE
    /\ m1' = TRUE
    /\ nGpio' = nGpio + 2
    /\ pc' = "uart_install"
    /\ UNCHANGED << op, calls, cfg, cfgNull, handleNull, handle, uart, rxbuf,
                    cfg_reg, i, attempt, cfgRet, ret, handlePre, linesPre,
                    uartPre, writes, nInstall, delays, modAckAt,
                    ackRead, steps, lookup, mismatch, sinceWrite, linkVars >>
    /\ UNCHANGED ready

\* ESP_ERROR_CHECK(uart_driver_install(...)) at the configuration baud rate
\* (sx1262.c:344-363); installing over an installed driver fails and aborts.
InitUartInstall ==
    /\ pc = "uart_install"
    /\ nInstall' = nInstall + 1
    /\ IF uart[cfg.uart_num].installed
       THEN pc' = "aborted" /\ UNCHANGED uart
       ELSE /\ uart' = uart_driver_install(uart, cfg.uart_num, SX1262_UART_CONFIG_BAUD)
            /\ pc' = "enter_cfg"
    /\ UNCHANGED << op, calls, cfg, cfgNull, handleNull, handle, m0, m1, rxbuf,
                    cfg_reg, i, attempt, cfgRet, ret, handlePre, linesPre,
                    uartPre, writes, nGpio, delays, modAckAt,
                    ackRead, steps, lookup, mismatch, sinceWrite, linkVars >>
    /\ UNCHANGED ready

\* Enter configuration mode and build the register (sx1262.c:365-376).
InitEnterConfig ==
    /\ pc = "enter_cfg"
    /\ m0' = sx1262_enter_config_mode[1]
    /\ m1' = sx1262_enter_config_mode[2]
    /\ \E read \in ReadBacks(sx1262_enter_config_mode) :
          mismatch' = (mismatch \/ set_mode_mismatch(sx1262_enter_config_mode, read))
    /\ nGpio' = nGpio + 2
    /\ cfg_reg' = sx1262_build_config_reg(cfg)
    /\ cfgRet' = "ESP_FAIL"
    /\ i' = 0
    /\ pc' = "outer_loop"
    /\ UNCHANGED << op, calls, cfg, cfgNull, handleNull, handle, uart, rxbuf,
                    attempt, ret, handlePre, linesPre, uartPre, writes,
                    nInstall, delays, modAckAt, ackRead, steps,
                    lookup, sinceWrite, linkVars >>
    /\ UNCHANGED ready

\* An input flush that leaves the buffered bytes in place.
drain_input_noop(buf) == buf

\* The do/while loops that read the receive buffer until it is empty
\* (sx1262.c:183-192 and 251-259).
drain_input(buf) == << >>

\* Head of the for loop of sx1262_init, up to the input flush that begins
\* sx1262_send_config (sx1262.c:377-390, 183-206).
InitOuterLoop ==
    /\ pc = "outer_loop"
    /\ IF i < SX1262_CFG_RETRY_ATTEMPTS
       THEN /\ IF i > 0
               THEN /\ m0' = sx1262_enter_config_mode[1]
                    /\ m1' = sx1262_enter_config_mode[2]
                    /\ \E read \in ReadBacks(sx1262_enter_config_mode) :
                          mismatch' = (mismatch \/ set_mode_mismatch(
                                           sx1262_enter_config_mode, read))
                    /\ nGpio' = nGpio + 2
               ELSE UNCHANGED << m0, m1, nGpio, mismatch >>
            /\ rxbuf' = drain_input(rxbuf)
            /\ sinceWrite' = sinceWrite \cup { "flush" }
            /\ attempt' = 0
            /\ pc' = "cfg_write"
       ELSE /\ pc' = "after_loop"
            /\ UNCHANGED << m0, m1, nGpio, rxbuf, attempt, mismatch, sinceWrite >>
    /\ UNCHANGED << op, calls, cfg, cfgNull, handleNull, handle, uart, cfg_reg,
                    i, cfgRet, ret, handlePre, linesPre, uartPre, writes,
                    nInstall, delays, modAckAt, ackRead, steps,
                    lookup, linkVars >>
    /\ UNCHANGED ready

\* One uart_write_bytes of the register (sx1262.c:206-221). A short write
\* continues with the next attempt. The module, which in configuration mode
\* sends nothing but command responses, answers a complete write during the
\* 500 ms processing delay and does not answer an incomplete register.
CfgWrite ==
    /\ pc = "cfg_write"
    /\ attempt < SX1262_CFG_RETRY_ATTEMPTS
    /\ writes' = writes + 1
    /\ sinceWrite' = { }
    /\ \E written \in WriteCounts :
          IF written # 12
          THEN /\ attempt' = attempt + 1
               /\ pc' = "cfg_write"
               /\ UNCHANGED << rxbuf, modAckAt >>
          ELSE /\ \E r \in Responses(cfg_reg) :
                     /\ rxbuf' = rxbuf \o r
                     /\ modAckAt' = IF modAckAt = 0 /\ Len(r) > 0 /\ r[1] = 193
                                    THEN writes + 1
                                    ELSE modAckAt
               /\ pc' = "cfg_read"
               /\ UNCHANGED attempt
    /\ UNCHANGED << op, calls, cfg, cfgNull, handleNull, handle, m0, m1, uart,
                    cfg_reg, i, cfgRet, ret, handlePre, linesPre, uartPre,
                    nGpio, nInstall, delays, ackRead, steps, lookup,
                    mismatch, linkVars >>
    /\ UNCHANGED ready

\* The response check of one attempt (sx1262.c:223-265).
CfgRead ==
    /\ pc = "cfg_read"
    /\ LET available == Len(rxbuf)
           response == IF available > 0 THEN Take(rxbuf, RESPONSE_SIZE) ELSE << >>
       IN  /\ ackRead' = (ackRead \/ (Len(response) > 0 /\ response[1] = 193))
           /\ IF available > 0 /\ config_acked(response)
              THEN /\ rxbuf' = Drop(rxbuf, RESPONSE_SIZE)
                   /\ cfgRet' = "ESP_OK"
                   /\ pc' = "after_loop"
                   /\ UNCHANGED << attempt, delays, sinceWrite >>
              ELSE /\ rxbuf' = drain_input(Drop(rxbuf, RESPONSE_SIZE))
                   /\ delays' = IF attempt < SX1262_CFG_RETRY_ATTEMPTS - 1
                                THEN delays + 1 ELSE delays
                   /\ sinceWrite' = IF attempt < SX1262_CFG_RETRY_ATTEMPTS - 1
                                    THEN { "flush", "delay" }
                                    ELSE { "flush" }
                   /\ attempt' = attempt + 1
                   /\ pc' = "cfg_write"
                   /\ UNCHANGED cfgRet
    /\ UNCHANGED << op, calls, cfg, cfgNull, handleNull, handle, m0, m1, uart,
                    cfg_reg, i, ret, handlePre, linesPre, uartPre, writes,
                    nGpio, nInstall, modAckAt, steps, lookup,
                    mismatch, linkVars >>
    /\ UNCHANGED ready

\* sx1262_send_config returns ESP_FAIL after its last attempt; sx1262_init
\* waits and moves to its next iteration (sx1262.c:267-274, 394-401).
CfgExhausted ==
    /\ pc = "cfg_write"
    /\ attempt >= SX1262_CFG_RETRY_ATTEMPTS
    /\ cfgRet' = "ESP_FAIL"
    /\ delays' = IF i < SX1262_CFG_RETRY_ATTEMPTS - 1 THEN delays + 1 ELSE delays
    /\ sinceWrite' = IF i < SX1262_CFG_RETRY_ATTEMPTS - 1
                     THEN sinceWrite \cup { "delay" }
                     ELSE sinceWrite
    /\ i' = i + 1
    /\ pc' = "outer_loop"
    /\ UNCHANGED << op, calls, cfg, cfgNull, handleNull, handle, m0, m1, uart,
                    rxbuf, cfg_reg, attempt, ret, handlePre, linesPre, uartPre,
                    writes, nGpio, nInstall, modAckAt, ackRead,
                    steps, lookup, mismatch, linkVars >>
    /\ UNCHANGED ready

\* No acknowledgement: delete the driver and fail (sx1262.c:403-407).
InitFail ==
    /\ pc = "after_loop"
    /\ cfgRet # "ESP_OK"
    /\ uart' = uart_driver_delete(uart, cfg.uart_num)
    /\ rxbuf' = << >>
    /\ ret' = "ESP_FAIL"
    /\ pc' = "done"
    /\ ready' = FALSE
    /\ UNCHANGED << op, calls, cfg, cfgNull, handleNull, handle, m0, m1,
                    cfg_reg, i, attempt, cfgRet, handlePre, linesPre, uartPre,
                    writes, nGpio, nInstall, delays, modAckAt,
                    ackRead, steps, lookup, mismatch, sinceWrite, linkVars >>

\* uart_driver_delete and the 300 ms wait (sx1262.c:409-412).
PostAckClose ==
    /\ pc = "after_loop"
    /\ cfgRet = "ESP_OK"
    /\ uart' = uart_driver_delete(uart, cfg.uart_num)
    /\ rxbuf' = << >>
    /\ steps' = steps \o << "close", "wait" >>
    /\ pc' = "post_enter_cfg"
    /\ UNCHANGED << op, calls, cfg, cfgNull, handleNull, handle, m0, m1,
                    cfg_reg, i, attempt, cfgRet, ret, handlePre, linesPre,
                    uartPre, writes, nGpio, nInstall, delays,
                    modAckAt, ackRead, lookup, mismatch, sinceWrite, linkVars >>
    /\ UNCHANGED ready

\* Configuration mode again and the 1000 ms wait (sx1262.c:414-417).
PostAckEnterConfig ==
    /\ pc = "post_enter_cfg"
    /\ m0' = sx1262_enter_config_mode[1]
    /\ m1' = sx1262_enter_config_mode[2]
    /\ \E read \in ReadBacks(sx1262_enter_config_mode) :
          mismatch' = (mismatch \/ set_mode_mismatch(sx1262_enter_config_mode, read))
    /\ nGpio' = nGpio + 2
    /\ steps' = steps \o << "config_mode", "wait" >>
    /\ pc' = "post_reopen"
    /\ UNCHANGED << op, calls, cfg, cfgNull, handleNull, handle, uart, rxbuf,
                    cfg_reg, i, attempt, cfgRet, ret, handlePre, linesPre,
                    uartPre, writes, nInstall, delays, modAckAt,
                    ackRead, lookup, sinceWrite, linkVars >>
    /\ UNCHANGED ready

\* The driver installed again at the operating baud rate (sx1262.c:419-426).
PostAckReopen ==
    /\ pc = "post_reopen"
    /\ nInstall' = nInstall + 1
    /\ IF uart[cfg.uart_num].installed
       THEN pc' = "aborted" /\ UNCHANGED << uart, steps >>
       ELSE /\ uart' = uart_driver_install(uart, cfg.uart_num, init_reopen_baud)
            /\ steps' = Append(steps, "open")
            /\ pc' = "post_flush"
    /\ UNCHANGED << op, calls, cfg, cfgNull, handleNull, handle, m0, m1, rxbuf,
                    cfg_reg, i, attempt, cfgRet, ret, handlePre, linesPre,
                    uartPre, writes, nGpio, delays, modAckAt,
                    ackRead, lookup, mismatch, sinceWrite, linkVars >>
    /\ UNCHANGED ready

\* uart_flush and the 30 ms wait (sx1262.c:428-432).
PostAckFlush ==
    /\ pc = "post_flush"
    /\ rxbuf' = << >>
    /\ steps' = steps \o << "flush", "wait" >>
    /\ pc' = "post_exit_cfg"
    /\ UNCHANGED << op, calls, cfg, cfgNull, handleNull, handle, m0, m1, uart,
                    cfg_reg, i, attempt, cfgRet, ret, handlePre, linesPre,
                    uartPre, writes, nGpio, nInstall, delays,
                    modAckAt, ackRead, lookup, mismatch, sinceWrite, linkVars >>
    /\ UNCHANGED ready

\* Back to normal mode (sx1262.c:434-436).
PostAckExitConfig ==
    /\ pc = "post_exit_cfg"
    /\ m0' = sx1262_exit_config_mode[1]
    /\ m1' = sx1262_exit_config_mode[2]
    /\ \E read \in ReadBacks(sx1262_exit_config_mode) :
          mismatch' = (mismatch \/ set_mode_mismatch(sx1262_exit_config_mode, read))
    /\ nGpio' = nGpio + 2
    /\ steps' = Append(steps, "normal_mode")
    /\ pc' = "store"
    /\ UNCHANGED << op, calls, cfg, cfgNull, handleNull, handle, uart, rxbuf,
                    cfg_reg, i, attempt, cfgRet, ret, handlePre, linesPre,
                    uartPre, writes, nInstall, delays, modAckAt,
                    ackRead, lookup, sinceWrite, linkVars >>
    /\ UNCHANGED ready

\* The handle is filled and ESP_OK returned (sx1262.c:438-458).
InitStore ==
    /\ pc = "store"
    /\ handle' = init_store_handle(handle, cfg)
    /\ ret' = "ESP_OK"
    /\ pc' = "done"
    /\ ready' = TRUE
    /\ UNCHANGED << op, calls, cfg, cfgNull, handleNull, m0, m1, uart, rxbuf,
                    cfg_reg, i, attempt, cfgRet, handlePre, linesPre, uartPre,
                    writes, nGpio, nInstall, delays, modAckAt,
                    ackRead, steps, lookup, mismatch, sinceWrite, linkVars >>

(***************************************************************************)
(* sx1262_deinit (sx1262.c:636-647).                                       *)
(***************************************************************************)
Deinit ==
    /\ pc = "idle"
    /\ calls < MaxCalls
    /\ op' = "deinit"
    /\ \E hn \in BOOLEAN :
          /\ handleNull' = hn
          /\ IF hn
             THEN /\ ret' = "ESP_ERR_INVALID_ARG"
                  /\ UNCHANGED << uart, rxbuf, handle, ready >>
             ELSE /\ ready' = FALSE
                  /\ uart' = uart_driver_delete(uart, handle.uart_num)
                  /\ rxbuf' = IF handle.uart_num = 1 THEN << >> ELSE rxbuf
                  /\ handle' = [handle EXCEPT !.is_configured = FALSE]
                  /\ ret' = "ESP_OK"
    /\ pc' = "done"
    /\ BeginCall
    /\ UNCHANGED << calls, cfg, cfgNull, m0, m1, lookup, linkVars >>

\* The call has returned; the caller goes on.
Return ==
    /\ pc = "done"
    /\ pc' = "idle"
    /\ calls' = calls + 1
    /\ op' = "none"
    /\ ret' = "none"
    /\ cfg' = NoConfig
    /\ cfgNull' = FALSE
    /\ handleNull' = FALSE
    /\ BeginCall
    /\ UNCHANGED << handle, m0, m1, uart, rxbuf, lookup, linkVars >>
    /\ UNCHANGED ready

Next ==
    \/ InitCall
    \/ InitGpio
    \/ InitUartInstall
    \/ InitEnterConfig
    \/ InitOuterLoop
    \/ CfgWrite
    \/ CfgRead
    \/ CfgExhausted
    \/ InitFail
    \/ PostAckClose
    \/ PostAckEnterConfig
    \/ PostAckReopen
    \/ PostAckFlush
    \/ PostAckExitConfig
    \/ InitStore
    \/ Deinit
    \/ Return

Spec == Init /\ [][Next]_vars

(***************************************************************************)
(* The register codec on its own: sx1262_build_config_reg and the four     *)
(* lookups applied to inputs drawn in the initial state.                   *)
(***************************************************************************)
\* Valid configurations (sx1262.h:80-93): both bands, every enumerated
\* power, air speed and buffer size, extreme addresses and keys.
CodecConfigs ==
    [ uart_num : {1}, m0_pin : {4}, m1_pin : {5},
      addr : {0, 1, 255, 256, 43981, 65535},
      freq : {410, 430, 493, 850, 868, 930},
      power : {10, 13, 17, 22},
      air_speed : {1200, 2400, 4800, 9600, 19200, 38400, 62500},
      net_id : {0, 1, 255},
      buffer_size : {32, 64, 128, 240},
      crypt_key : {0, 4660, 65535},
      rssi_enabled : BOOLEAN, persistent_config : BOOLEAN ]

\* Arguments of the lookups: every uint16_t air speed, every uint8_t buffer
\* size and power, and a sample of uint32_t baud rates.
LookupInputs ==
    [ kind : {"air_speed"}, input : 0 .. 65535, code : {0} ]
    \cup [ kind : {"buffer_size", "power"}, input : 0 .. 255, code : {0} ]
    \cup [ kind : {"uart_baud"},
           input : { 0, 300, 1200, 2400, 4800, 9600, 19200, 38400, 57600,
                     115200, 230400, 921600, 2147483647 },
           code : {0} ]

\* The lookup a kind names.
lookup_code(kind, input) ==
    CASE kind = "air_speed" -> sx1262_get_air_speed_reg(input)
      [] kind = "buffer_size" -> sx1262_get_buffer_size_reg(input)
      [] kind = "power" -> sx1262_get_power_reg(input)
      [] kind = "uart_baud" -> sx1262_get_uart_baud_reg(input)

InitCodec ==
    /\ \/ pc = "build_in" /\ cfg \in CodecConfigs /\ lookup = NoLookup
       \/ pc = "lookup_in" /\ cfg = NoConfig /\ lookup \in LookupInputs
    /\ op = "none"
    /\ calls = 0
    /\ cfgNull = FALSE
    /\ handleNull = FALSE
    /\ handle = CHOOSE h \in HandleGarbage : ~h.is_configured
    /\ m0 = FALSE
    /\ m1 = FALSE
    /\ uart = [p \in Ports |-> UartClosed]
    /\ rxbuf = << >>
    /\ cfg_reg = << >>
    /\ i = 0
    /\ attempt = 0
    /\ cfgRet = "ESP_FAIL"
    /\ ret = "none"
    /\ handlePre = handle
    /\ linesPre = << m0, m1 >>
    /\ uartPre = uart
    /\ writes = 0
    /\ nGpio = 0
    /\ nInstall = 0
    /\ delays = 0
    /\ modAckAt = 0
    /\ ackRead = FALSE
    /\ steps = << >>
    /\ mismatch = FALSE
    /\ sinceWrite = { }
    /\ ready = FALSE
    /\ LinkUnused
    /\ writer = WriterOff

sessionVars == << op, calls, cfgNull, handleNull, handle, m0, m1, uart, rxbuf,
                  i, attempt, cfgRet, ret, handlePre, linesPre, uartPre,
                  writes, nGpio, nInstall, delays, modAckAt, ackRead, steps,
                  mismatch, sinceWrite, ready, linkVars >>

\* sx1262_build_config_reg(config, cfg_reg).
CodecBuild ==
    /\ pc = "build_in"
    /\ cfg_reg' = sx1262_build_config_reg(cfg)
    /\ pc' = "build_out"
    /\ UNCHANGED << cfg, lookup, sessionVars >>

\* One call of a lookup.
CodecLookup ==
    /\ pc = "lookup_in"
    /\ lookup' = [lookup EXCEPT !.code = lookup_code(lookup.kind, lookup.input)]
    /\ pc' = "lookup_out"
    /\ UNCHANGED << cfg, cfg_reg, sessionVars >>

NextCodec ==
    \/ CodecBuild
    \/ CodecLookup

SpecCodec == InitCodec /\ [][NextCodec]_vars

(***************************************************************************)
(* The link: sx1262_send and sx1262_receive on a handle, the radio between *)
(* two peers, and the caller's receive buffer.                             *)
(***************************************************************************)
\* The literals of sx1262_send and sx1262_receive.
SEND_MAX_LEN == 240
PACKET_SIZE == 256
TEMP_BUFFER_SIZE == 256
NEWLINE == 10
PAYLOAD_START == 3
RSSI_ABSENT == 0

\* Conversion of an int to int8_t (two's complement, as GCC defines it).
ToInt8(x) ==
    LET m == ((x % 256) + 256) % 256
    IN  IF m >= 128 THEN m - 256 ELSE m

\* A send that leaves the length as the caller gave it.
send_clamp_len_none(len) == len

\* if (len > 240) len = 240 (sx1262.c:480-482).
send_clamp_len(len) == IF len > SEND_MAX_LEN THEN SEND_MAX_LEN ELSE len

\* A packet with the sender's own address in front of the target's.
send_packet_own_first(h, tgt, d, len) ==
    << HighByte(h.addr), LowByte(h.addr), LowByte(h.offset_freq),
       HighByte(tgt), LowByte(tgt), LowByte(h.offset_freq) >>
    \o SubSeq(d, 1, send_clamp_len(len))
    \o << NEWLINE >>

\* packet[0..packet_len) as sx1262_send builds it (sx1262.c:484-496); every
\* element is stored into a uint8_t.
send_packet(h, tgt, d, len) ==
    << HighByte(tgt), LowByte(tgt), LowByte(h.offset_freq),
       HighByte(h.addr), LowByte(h.addr), LowByte(h.offset_freq) >>
    \o SubSeq(d, 1, send_clamp_len(len))
    \o << NEWLINE >>

\* A test that takes only a negative return as a failed write.
send_write_failed_negative(w, packet_len) == w < 0

\* written != packet_len (sx1262.c:500); an int of -1 compared with a size_t
\* becomes SIZE_MAX, which no packet_len equals.
send_write_failed(w, packet_len) == w # packet_len

\* What uart_write_bytes may return for a packet: all of it, less, or -1.
SendWriteCounts(packet_len) == { packet_len, packet_len - 1, 0 - 1 }

\* A search that takes the end of the bytes read as a terminator.
find_newline_or_end(temp, len) ==
    LET hits == { k \in 0 .. (len - 1) : temp[k + 1] = NEWLINE }
    IN  IF hits = {} THEN len
        ELSE CHOOSE k \in hits : \A j \in hits : k <= j

\* The search of sx1262_receive for the first '\n' in temp_buffer[0..len)
\* (sx1262.c:551-558): its index, or -1.
find_newline(temp, len) ==
    LET hits == { k \in 0 .. (len - 1) : temp[k + 1] = NEWLINE }
    IN  IF hits = {} THEN 0 - 1
        ELSE CHOOSE k \in hits : \A j \in hits : k <= j

\* A length test that lets a frame with an empty payload through.
receive_too_short_3(newline_pos) == newline_pos < 3

\* newline_pos < 4 (sx1262.c:566).
receive_too_short(newline_pos) == newline_pos < 4

\* A size test that also refuses a payload that fills the buffer exactly.
receive_too_big_or_equal(payload_len, bsize) == payload_len >= bsize

\* A size test that lets through a payload one byte longer than the buffer.
receive_too_big_off_by_one(payload_len, bsize) == payload_len > bsize + 1

\* payload_len > buffer_size (sx1262.c:587).
receive_too_big(payload_len, bsize) == payload_len > bsize

\* *rssi = -(256 - temp_buffer[newline_pos - 1]) with int8_t *rssi
\* (sx1262.c:577).
receive_rssi(raw) == ToInt8(0 - (256 - raw))

\* sx1262_receive from the return of uart_read_bytes to its own return
\* (sx1262.c:547-596): the result code and the caller's buffer,
\* *received_len and *rssi afterwards.
receive_decode(rssi_enabled, temp, len, bsize, rnull, buf, rlen, rs) ==
    LET newline_pos == find_newline(temp, len)
        with_rssi == rssi_enabled /\ newline_pos >= 5
        payload_end == IF with_rssi THEN newline_pos - 1 ELSE newline_pos
        rs1 == IF rnull THEN rs
               ELSE IF with_rssi THEN receive_rssi(temp[newline_pos])
               ELSE RSSI_ABSENT
        payload_len == payload_end - PAYLOAD_START
        unwritten == [ buffer |-> buf, received_len |-> rlen, rssi |-> rs ]
    IN  IF len <= 0 \/ newline_pos < 0
        THEN [ ret |-> "ESP_ERR_NOT_FOUND" ] @@ unwritten
        ELSE IF receive_too_short(newline_pos)
        THEN [ ret |-> "ESP_ERR_INVALID_SIZE" ] @@ unwritten
        ELSE IF receive_too_big(payload_len, bsize)
        THEN [ ret |-> "ESP_ERR_INVALID_SIZE", buffer |-> buf,
               received_len |-> rlen, rssi |-> rs1 ]
        ELSE [ ret |-> "ESP_OK",
               buffer |-> SubSeq(temp, PAYLOAD_START + 1, payload_end)
                          \o Drop(buf, payload_len),
               received_len |-> payload_len,
               rssi |-> rs1 ]

\* The hardware operations of sx1262_send in order (sx1262.c:473-505).
send_steps_write_first(failed) ==
    << "uart_write_bytes", "set_mode_normal" >>
    \o (IF failed THEN << >> ELSE << "tx_delay" >>)

send_steps(failed) ==
    << "set_mode_normal", "uart_write_bytes" >>
    \o (IF failed THEN << >> ELSE << "tx_delay" >>)

\* A receive that waits and reads whatever the first count was.
receive_steps_always_read(available1, available2) ==
    << "set_mode_normal", "uart_get_buffered_data_len", "rx_delay",
       "uart_get_buffered_data_len", "uart_read_bytes" >>

\* The hardware operations of sx1262_receive in order (sx1262.c:523-545),
\* given what the two buffered-count queries report.
receive_steps(available1, available2) ==
    << "set_mode_normal", "uart_get_buffered_data_len" >>
    \o (IF available1 = 0 THEN << >>
        ELSE << "rx_delay", "uart_get_buffered_data_len" >>
             \o (IF available2 = 0 THEN << >> ELSE << "uart_read_bytes" >>))

\* The places where the bytes of a frame on the air may be split by time.
SplitPoints == { 2, 5 }

\* How many of the bytes a on the air may arrive in one go, f being the frame
\* they belong to: a frame arrives whole or in two pieces.
ArrivalCounts(a, f) ==
    { k \in (IF a = f THEN SplitPoints ELSE { }) \cup { Len(a) } :
        k >= 1 /\ k <= Len(a) }

\* What a call leaves alone in the session's variables, and the histories of
\* the caller's data as the call begins.
LinkBegin ==
    /\ handlePre' = handle
    /\ linesPre' = << m0, m1 >>
    /\ uartPre' = uart
    /\ outPre' = << buffer, received_len, rssi >>
    /\ rxPre' = rxbuf
    /\ UNCHANGED << calls, cfg, cfgNull, handle, uart, cfg_reg, i, attempt,
                    cfgRet, writes, nInstall, delays, modAckAt, ackRead,
                    lookup, data, target_addr, buffer_size, rssiNull,
                    sinceWrite, frameIn, lora, writer >>
    /\ UNCHANGED ready

\* sx1262_send(handle, target_addr, data, len) (sx1262.c:461-509).  On a
\* port without a driver uart_write_bytes returns -1.
Send ==
    /\ pc = "idle"
    /\ calls < MaxCalls
    /\ op' = "send"
    /\ pc' = "done"
    /\ LinkBegin
    /\ UNCHANGED << rxbuf, buffer, received_len, rssi, temp_buffer, readLen,
                    air, prevTemp >>
    /\ \E hn \in BOOLEAN :
          /\ handleNull' = hn
          /\ IF hn \/ Len(data) = 0 \/ ~handle.is_configured
             THEN /\ ret' = IF hn \/ Len(data) = 0
                            THEN "ESP_ERR_INVALID_ARG"
                            ELSE "ESP_ERR_INVALID_STATE"
                  /\ packet' = << >>
                  /\ txWritten' = 0
                  /\ nGpio' = 0
                  /\ steps' = << >>
                  /\ mismatch' = FALSE
                  /\ UNCHANGED << m0, m1, wire >>
             ELSE /\ m0' = sx1262_exit_config_mode[1]
                  /\ m1' = sx1262_exit_config_mode[2]
                  /\ \E read \in ReadBacks(sx1262_exit_config_mode) :
                        mismatch' = set_mode_mismatch(sx1262_exit_config_mode, read)
                  /\ nGpio' = 2
                  /\ packet' = send_packet(handle, target_addr, data, Len(data))
                  /\ \E w \in (IF uart[handle.uart_num].installed
                              THEN SendWriteCounts(Len(packet'))
                              ELSE { 0 - 1 }) :
                        /\ txWritten' = w
                        /\ wire' = IF w > 0
                                   THEN Append(wire, Take(packet', w))
                                   ELSE wire
                        /\ steps' = send_steps(send_write_failed(w, Len(packet')))
                        /\ ret' = IF send_write_failed(w, Len(packet'))
                                  THEN "ESP_FAIL"
                                  ELSE "ESP_OK"

\* The radio: the module takes the first three bytes it was given as the
\* target address and channel and transmits the rest to the peer
\* (sx1262.h:134-148).
Deliver ==
    /\ pc = "idle"
    /\ Len(wire) > 0
    /\ air = << >>
    /\ air' = Drop(Head(wire), 3)
    /\ frameIn' = Drop(Head(wire), 3)
    /\ wire' = Tail(wire)
    /\ UNCHANGED << pc, op, calls, cfg, cfgNull, handleNull, handle, m0, m1,
                    uart, rxbuf, cfg_reg, i, attempt, cfgRet, ret, handlePre,
                    linesPre, uartPre, writes, nGpio, nInstall, delays, modAckAt,
                    ackRead, steps, lookup, data, target_addr, buffer_size,
                    rssiNull, packet, txWritten, buffer, received_len, rssi,
                    temp_buffer, readLen, outPre, rxPre, mismatch, sinceWrite,
                    prevTemp, lora, writer >>
    /\ UNCHANGED ready

\* The peer's module puts bytes it received on its UART: the next bytes on
\* the air reach the receive ring between two calls.
Arrive ==
    /\ pc = "idle"
    /\ \E k \in ArrivalCounts(air, frameIn) :
          /\ rxbuf' = rxbuf \o Take(air, k)
          /\ air' = Drop(air, k)
    /\ UNCHANGED << pc, op, calls, cfg, cfgNull, handleNull, handle, m0, m1,
                    uart, cfg_reg, i, attempt, cfgRet, ret, handlePre,
                    linesPre, uartPre, writes, nGpio, nInstall, delays, modAckAt,
                    ackRead, steps, lookup, data, target_addr, buffer_size,
                    rssiNull, packet, txWritten, wire, buffer, received_len,
                    rssi, temp_buffer, readLen, outPre, rxPre, mismatch,
                    sinceWrite, frameIn, prevTemp, lora, writer >>
    /\ UNCHANGED ready

\* sx1262_receive(handle, buffer, buffer_size, received_len, rssi)
\* (sx1262.c:511-597).  Bytes on the air may arrive during the 250 ms delay
\* and the read; uart_read_bytes returns up to 255 buffered bytes, or -1 on
\* a driver error.  On a port without a driver the buffered-count query
\* fails and leaves available at 0.
Receive ==
    /\ pc = "idle"
    /\ calls < MaxCalls
    /\ op' = "receive"
    /\ pc' = "done"
    /\ LinkBegin
    /\ prevTemp' = temp_buffer
    /\ UNCHANGED << packet, txWritten, wire >>
    /\ \E hn \in BOOLEAN, readOk \in BOOLEAN :
          /\ handleNull' = hn
          /\ IF hn \/ ~handle.is_configured
             THEN /\ ret' = IF hn THEN "ESP_ERR_INVALID_ARG"
                            ELSE "ESP_ERR_INVALID_STATE"
                  /\ nGpio' = 0
                  /\ steps' = << >>
                  /\ mismatch' = FALSE
                  /\ temp_buffer' = << >>
                  /\ readLen' = 0
                  /\ UNCHANGED << m0, m1, rxbuf, air, buffer, received_len, rssi >>
             ELSE /\ m0' = sx1262_exit_config_mode[1]
                  /\ m1' = sx1262_exit_config_mode[2]
                  /\ \E read \in ReadBacks(sx1262_exit_config_mode) :
                        mismatch' = set_mode_mismatch(sx1262_exit_config_mode, read)
                  /\ nGpio' = 2
                  /\ IF Len(rxbuf) = 0 \/ ~uart[handle.uart_num].installed
                     THEN /\ ret' = "ESP_ERR_NOT_FOUND"
                          /\ steps' = receive_steps(0, 0)
                          /\ temp_buffer' = << >>
                          /\ readLen' = 0
                          /\ UNCHANGED << rxbuf, air, buffer, received_len, rssi >>
                     ELSE \E k \in ArrivalCounts(air, frameIn) \cup { 0 } :
                          LET ring == rxbuf \o Take(air, k)
                              temp == IF readOk
                                      THEN Take(ring, TEMP_BUFFER_SIZE - 1)
                                      ELSE << >>
                              len == IF readOk THEN Len(temp) ELSE 0 - 1
                              out == receive_decode(handle.rssi_enabled, temp,
                                                    len, buffer_size, rssiNull,
                                                    buffer, received_len, rssi)
                          IN  /\ air' = Drop(air, k)
                              /\ steps' = receive_steps(Len(rxbuf), Len(ring))
                              /\ temp_buffer' = temp
                              /\ readLen' = len
                              /\ rxbuf' = Drop(ring, Len(temp))
                              /\ ret' = out.ret
                              /\ buffer' = out.buffer
                              /\ received_len' = out.received_len
                              /\ rssi' = out.rssi

\* What the module answers to the RSSI command within the wait.
RssiResponses ==
    { << >>, << 193, 0, 2 >>, << 193, 0, 2, 0 >>, << 193, 0, 2, 100 >>,
      << 193, 0, 2, 255 >>, << 192, 0, 2, 5 >> }

\* The response test of sx1262_get_channel_rssi (sx1262.c:626).
rssi_response_ok(response, len) ==
    /\ len >= 4
    /\ response[1] = SX1262_RESPONSE_SUCCESS
    /\ response[2] = 0
    /\ response[3] = 2

\* The hardware operations of sx1262_get_channel_rssi in order
\* (sx1262.c:610-624).
rssi_steps ==
    << "set_mode_normal", "uart_flush", "uart_write_bytes", "rssi_delay",
       "uart_read_bytes" >>

\* sx1262_get_channel_rssi(handle, rssi) (sx1262.c:599-634).  On a port
\* without a driver the flush and the write fail and the read returns -1.
GetChannelRssi ==
    /\ pc = "idle"
    /\ calls < MaxCalls
    /\ op' = "get_channel_rssi"
    /\ pc' = "done"
    /\ LinkBegin
    /\ UNCHANGED << packet, txWritten, wire, buffer, received_len, air,
                    prevTemp >>
    /\ \E hn \in BOOLEAN :
          /\ handleNull' = hn
          /\ IF hn \/ rssiNull \/ ~handle.is_configured
             THEN /\ ret' = IF hn \/ rssiNull
                            THEN "ESP_ERR_INVALID_ARG"
                            ELSE "ESP_ERR_INVALID_STATE"
                  /\ nGpio' = 0
                  /\ steps' = << >>
                  /\ mismatch' = FALSE
                  /\ temp_buffer' = << >>
                  /\ readLen' = 0
                  /\ UNCHANGED << m0, m1, rxbuf, rssi >>
             ELSE /\ m0' = sx1262_exit_config_mode[1]
                  /\ m1' = sx1262_exit_config_mode[2]
                  /\ \E read \in ReadBacks(sx1262_exit_config_mode) :
                        mismatch' = set_mode_mismatch(sx1262_exit_config_mode, read)
                  /\ nGpio' = 2
                  /\ steps' = rssi_steps
                  /\ IF uart[handle.uart_num].installed
                     THEN \E r \in RssiResponses :
                          LET response == Take(r, 4)
                              len == Len(response)
                          IN  /\ rxbuf' = Drop(r, 4)
                              /\ temp_buffer' = response
                              /\ readLen' = len
                              /\ IF rssi_response_ok(response, len)
                                 THEN /\ rssi' = receive_rssi(response[4])
                                      /\ ret' = "ESP_OK"
                                 ELSE /\ ret' = "ESP_FAIL"
                                      /\ UNCHANGED rssi
                     ELSE /\ temp_buffer' = << >>
                          /\ readLen' = 0 - 1
                          /\ ret' = "ESP_FAIL"
                          /\ UNCHANGED << rxbuf, rssi >>

(***************************************************************************)
(* Inputs of the link model.                                               *)
(***************************************************************************)
MaxPayloadLen == 300
MaxRxLen == 5

\* len bytes that cycle through the 16 values from first on.
Pattern(first, len) == [ k \in 1 .. len |-> first + ((k - 1) % 16) ]

\* Messages: empty, short, at the 240-byte limit, and longer; text ('A'..'P')
\* and bytes 0..15 (with a '\n' among them).
PayloadLens == { 0, 1, 2, 11, 240, 241, MaxPayloadLen }

Payloads == { Pattern(first, len) : first \in { 65, 0 }, len \in PayloadLens }

\* Target addresses: broadcast, and one whose bytes are both '\n'.
Targets == { 65535, 2570 }

\* A configuration given to sx1262_init.
LinkConfig(addr, freq, rssi_enabled) ==
    [ uart_num |-> 1, m0_pin |-> 4, m1_pin |-> 5, addr |-> addr, freq |-> freq,
      power |-> 22, air_speed |-> 2400, net_id |-> 0, buffer_size |-> 240,
      crypt_key |-> 0, rssi_enabled |-> rssi_enabled,
      persistent_config |-> FALSE ]

Unconfigured == CHOOSE g \in HandleGarbage : ~g.is_configured

\* Handles as sx1262_init leaves them (one of them with an address byte and
\* a frequency offset equal to '\n'), and one that was never configured.
LinkHandles ==
    { init_store_handle(Unconfigured, LinkConfig(1, 868, FALSE)),
      init_store_handle(Unconfigured, LinkConfig(43981, 430, TRUE)),
      init_store_handle(Unconfigured, LinkConfig(10, 860, FALSE)),
      Unconfigured }

\* The caller's receive buffer: its size, and whether the caller passes NULL
\* for rssi.
ReceiveArgs == { << 0, FALSE >>, << 2, FALSE >>, << 256, FALSE >>, << 256, TRUE >> }

\* Two complete frames from the peer at address 0x0102, with the one-byte
\* payloads 'A' and 'B'.
FirstFrame == << 1, 2, 18, 65, NEWLINE >>
SecondFrame == << 1, 2, 18, 66, NEWLINE >>

\* Bytes waiting in the receive ring when sx1262_receive is called: every
\* string over {'\n', 'A'} up to MaxRxLen bytes, frames with the terminator
\* at index 5 and 6 that end in each of a sample of RSSI bytes, and frames
\* around the 255-byte read, and two complete frames one after the other.
RxBuffers ==
    UNION { [ 1 .. n -> { NEWLINE, 65 } ] : n \in 0 .. MaxRxLen }
    \cup { front \o << raw, NEWLINE >> :
             front \in { << 1, 2, 18, 65 >>, << 1, 2, 18, 65, 66 >> },
             raw \in { 0, 1, 100, 127, 128, 224, 255 } }
    \cup { Pattern(65, 243) \o << NEWLINE >>,
           Pattern(65, 254) \o << NEWLINE >>,
           Pattern(65, 255) \o << NEWLINE >> }
    \cup { FirstFrame \o SecondFrame }

\* Frames a peer sent that are still on the air when the first call is made:
\* what the peer's sx1262_send wrote, less the three bytes its module took.
PeerFrames ==
    { Drop(send_packet(init_store_handle(Unconfigured, LinkConfig(1, 868, FALSE)),
                       65535, d, Len(d)), 3) :
        d \in { Pattern(65, 3), Pattern(65, 11) } }

\* The caller's variables before the first call: an unwritten buffer and
\* unwritten result variables.
BUFFER_FILL == 238
LEN_UNSET == 999
RSSI_UNSET == 77

InitLink ==
    /\ pc = "idle"
    /\ op = "none"
    /\ calls = 0
    /\ cfg = NoConfig
    /\ cfgNull = FALSE
    /\ handleNull = FALSE
    /\ handle \in LinkHandles
    /\ m0 = FALSE
    /\ \/ /\ data \in Payloads
          /\ target_addr \in Targets
          /\ rxbuf = << >>
          /\ buffer_size = 256
          /\ rssiNull = FALSE
          /\ m1 = TRUE
          /\ air = << >>
       \/ /\ handle.addr # 10
          /\ data = << >>
          /\ target_addr = 0
          /\ rxbuf \in RxBuffers
          /\ \E args \in ReceiveArgs :
                /\ buffer_size = args[1]
                /\ rssiNull = args[2]
          /\ m1 = FALSE
          /\ air = << >>
       \/ /\ handle.is_configured
          /\ handle.addr # 10
          /\ data = << >>
          /\ target_addr = 0
          /\ rxbuf = << >>
          /\ buffer_size = 256
          /\ rssiNull = FALSE
          /\ m1 = FALSE
          /\ air \in PeerFrames
    /\ uart = [ p \in Ports |->
                  IF p = 1 /\ handle.is_configured
                  THEN [ installed |-> TRUE, baud |-> SX1262_UART_NORMAL_BAUD ]
                  ELSE UartClosed ]
    /\ cfg_reg = << >>
    /\ i = 0
    /\ attempt = 0
    /\ cfgRet = "ESP_FAIL"
    /\ ret = "none"
    /\ handlePre = handle
    /\ linesPre = << m0, m1 >>
    /\ uartPre = uart
    /\ writes = 0
    /\ nGpio = 0
    /\ nInstall = 0
    /\ delays = 0
    /\ modAckAt = 0
    /\ ackRead = FALSE
    /\ steps = << >>
    /\ lookup = NoLookup
    /\ packet = << >>
    /\ txWritten = 0
    /\ wire = << >>
    /\ buffer = [ k \in 1 .. buffer_size |-> BUFFER_FILL ]
    /\ received_len = LEN_UNSET
    /\ rssi = RSSI_UNSET
    /\ temp_buffer = << >>
    /\ readLen = 0
    /\ outPre = << buffer, received_len, rssi >>
    /\ rxPre = rxbuf
    /\ mismatch = FALSE
    /\ sinceWrite = { }
    /\ frameIn = air
    /\ prevTemp = << >>
    /\ lora = LoraOff
    /\ writer = WriterOff
    /\ ready = handle.is_configured

NextLink ==
    \/ Send
    \/ Deliver
    \/ Arrive
    \/ Receive
    \/ Return

SpecLink == InitLink /\ [][NextLink]_vars

(***************************************************************************)
(* The whole interface on one handle: sx1262_init, sx1262_deinit,          *)
(* sx1262_send, sx1262_receive and sx1262_get_channel_rssi in any order,   *)
(* the handle holding whatever its memory held before the first call.      *)
(***************************************************************************)
InitApi ==
    /\ pc = "idle"
    /\ op = "none"
    /\ calls = 0
    /\ cfg = NoConfig
    /\ cfgNull = FALSE
    /\ handleNull = FALSE
    /\ handle \in HandleGarbage
    /\ m0 \in BOOLEAN
    /\ m1 \in BOOLEAN
    /\ uart = [p \in Ports |-> UartClosed]
    /\ rxbuf = << >>
    /\ cfg_reg = << >>
    /\ i = 0
    /\ attempt = 0
    /\ cfgRet = "ESP_FAIL"
    /\ ret = "none"
    /\ handlePre = handle
    /\ linesPre = << m0, m1 >>
    /\ uartPre = uart
    /\ writes = 0
    /\ nGpio = 0
    /\ nInstall = 0
    /\ delays = 0
    /\ modAckAt = 0
    /\ ackRead = FALSE
    /\ steps = << >>
    /\ lookup = NoLookup
    /\ mismatch = FALSE
    /\ sinceWrite = { }
    /\ ready = FALSE
    /\ data = Pattern(65, 3)
    /\ target_addr = 65535
    /\ buffer_size = 256
    /\ rssiNull \in BOOLEAN
    /\ packet = << >>
    /\ txWritten = 0
    /\ wire = << >>
    /\ buffer = [ k \in 1 .. buffer_size |-> BUFFER_FILL ]
    /\ received_len = LEN_UNSET
    /\ rssi = RSSI_UNSET
    /\ temp_buffer = << >>
    /\ readLen = 0
    /\ outPre = << buffer, received_len, rssi >>
    /\ rxPre = rxbuf
    /\ air = << >>
    /\ frameIn = << >>
    /\ prevTemp = << >>
    /\ lora = LoraOff
    /\ writer = WriterOff

\* The configurations the caller passes to sx1262_init here: a valid one,
\* one whose frequency is below both bands, and none (config == NULL).
ApiConfigs ==
    { c \in Configs : c.addr = 1 /\ ~c.rssi_enabled /\ c.freq \in { 409, 868 } }
    \cup { NoConfig }

ApiInitCall == InitCall /\ cfg' \in ApiConfigs

NextApi ==
    \/ ApiInitCall
    \/ InitGpio
    \/ InitUartInstall
    \/ InitEnterConfig
    \/ InitOuterLoop
    \/ CfgWrite
    \/ CfgRead
    \/ CfgExhausted
    \/ InitFail
    \/ PostAckClose
    \/ PostAckEnterConfig
    \/ PostAckReopen
    \/ PostAckFlush
    \/ PostAckExitConfig
    \/ InitStore
    \/ Deinit
    \/ Send
    \/ Receive
    \/ GetChannelRssi
    \/ Return

SpecApi == InitApi /\ [][NextApi]_vars

(***************************************************************************)
(* sx1262_init with the two input-draining loops of sx1262_send_config     *)
(* taken one turn at a time, and a module that may put a byte on the line  *)
(* between two turns.                                                      *)
(***************************************************************************)
\* sizeof(dummy) in the draining loops.
DUMMY_SIZE == 256

\* Most bytes the model lets wait in the ring while a loop drains it.
MaxRing == 2

\* uart_read_bytes(uart_num, dummy, min(available, sizeof(dummy)), 0).
drain_turn(buf) == Drop(buf, Min(Len(buf), DUMMY_SIZE))

\* Head of the for loop of sx1262_init, up to the call of sx1262_send_config
\* (sx1262.c:377-390).
LiveOuterLoop ==
    /\ pc = "outer_loop"
    /\ IF i < SX1262_CFG_RETRY_ATTEMPTS
       THEN /\ IF i > 0
               THEN /\ m0' = sx1262_enter_config_mode[1]
                    /\ m1' = sx1262_enter_config_mode[2]
                    /\ \E read \in ReadBacks(sx1262_enter_config_mode) :
                          mismatch' = (mismatch \/ set_mode_mismatch(
                                           sx1262_enter_config_mode, read))
                    /\ nGpio' = nGpio + 2
               ELSE UNCHANGED << m0, m1, nGpio, mismatch >>
            /\ attempt' = 0
            /\ pc' = "drain_first"
       ELSE /\ pc' = "after_loop"
            /\ UNCHANGED << m0, m1, nGpio, attempt, mismatch >>
    /\ UNCHANGED << op, calls, cfg, cfgNull, handleNull, handle, uart, rxbuf,
                    cfg_reg, i, cfgRet, ret, handlePre, linesPre, uartPre,
                    writes, nInstall, delays, modAckAt, ackRead, steps,
                    lookup, sinceWrite, ready, linkVars >>

\* One turn of the first do/while loop (sx1262.c:184-192): the buffered
\* count is read, the buffered bytes are read and the count is logged; the
\* loop ends when the count was zero.
DrainFirst ==
    /\ pc = "drain_first"
    /\ IF Len(rxbuf) > 0
       THEN /\ rxbuf' = drain_turn(rxbuf)
            /\ pc' = "drain_first"
            /\ UNCHANGED sinceWrite
       ELSE /\ sinceWrite' = sinceWrite \cup { "flush" }
            /\ pc' = "cfg_write"
            /\ UNCHANGED rxbuf
    /\ UNCHANGED << op, calls, cfg, cfgNull, handleNull, handle, m0, m1, uart,
                    cfg_reg, i, attempt, cfgRet, ret, handlePre, linesPre,
                    uartPre, writes, nGpio, nInstall, delays, modAckAt,
                    ackRead, steps, lookup, mismatch, ready, linkVars >>

\* The response check of one attempt, up to the second do/while loop
\* (sx1262.c:223-249).
LiveCfgRead ==
    /\ pc = "cfg_read"
    /\ LET available == Len(rxbuf)
           response == IF available > 0 THEN Take(rxbuf, RESPONSE_SIZE) ELSE << >>
       IN  /\ ackRead' = (ackRead \/ (Len(response) > 0 /\ response[1] = 193))
           /\ rxbuf' = Drop(rxbuf, RESPONSE_SIZE)
           /\ IF available > 0 /\ config_acked(response)
              THEN /\ cfgRet' = "ESP_OK"
                   /\ pc' = "after_loop"
              ELSE /\ pc' = "drain_retry"
                   /\ UNCHANGED cfgRet
    /\ UNCHANGED << op, calls, cfg, cfgNull, handleNull, handle, m0, m1, uart,
                    cfg_reg, i, attempt, ret, handlePre, linesPre, uartPre,
                    writes, nGpio, nInstall, delays, modAckAt, steps, lookup,
                    mismatch, sinceWrite, ready, linkVars >>

\* One turn of the second do/while loop, and after its last turn the wait
\* before the next attempt (sx1262.c:252-265).
DrainRetry ==
    /\ pc = "drain_retry"
    /\ IF Len(rxbuf) > 0
       THEN /\ rxbuf' = drain_turn(rxbuf)
            /\ pc' = "drain_retry"
            /\ UNCHANGED << delays, sinceWrite, attempt >>
       ELSE /\ delays' = IF attempt < SX1262_CFG_RETRY_ATTEMPTS - 1
                         THEN delays + 1 ELSE delays
            /\ sinceWrite' = IF attempt < SX1262_CFG_RETRY_ATTEMPTS - 1
                             THEN { "flush", "delay" }
                             ELSE { "flush" }
            /\ attempt' = attempt + 1
            /\ pc' = "cfg_write"
            /\ UNCHANGED rxbuf
    /\ UNCHANGED << op, calls, cfg, cfgNull, handleNull, handle, m0, m1, uart,
                    cfg_reg, i, cfgRet, ret, handlePre, linesPre, uartPre,
                    writes, nGpio, nInstall, modAckAt, ackRead, steps, lookup,
                    mismatch, ready, linkVars >>

\* The module puts one more byte on the line while a loop drains the input.
ModuleDelivers ==
    /\ pc \in { "drain_first", "drain_retry" }
    /\ Len(rxbuf) < MaxRing
    /\ rxbuf' = Append(rxbuf, 255)
    /\ UNCHANGED << pc, op, calls, cfg, cfgNull, handleNull, handle, m0, m1,
                    uart, cfg_reg, i, attempt, cfgRet, ret, handlePre,
                    linesPre, uartPre, writes, nGpio, nInstall, delays,
                    modAckAt, ackRead, steps, lookup, mismatch, sinceWrite,
                    ready, linkVars >>

\* The steps of the calling task inside sx1262_init.
LiveDriver ==
    \/ InitGpio
    \/ InitUartInstall
    \/ InitEnterConfig
    \/ LiveOuterLoop
    \/ DrainFirst
    \/ CfgWrite
    \/ LiveCfgRead
    \/ DrainRetry
    \/ CfgExhausted
    \/ InitFail
    \/ PostAckClose
    \/ PostAckEnterConfig
    \/ PostAckReopen
    \/ PostAckFlush
    \/ PostAckExitConfig
    \/ InitStore

NextLive ==
    \/ ApiInitCall
    \/ LiveDriver
    \/ ModuleDelivers
    \/ Deinit
    \/ Return

\* The calling task is scheduled again and again: a call that can take a
\* step takes one.
SpecLive == Init /\ [][NextLive]_vars /\ WF_vars(LiveDriver)

(***************************************************************************)
(* The RadioLib wrapper (lora_sx1262.cpp): the calling task, the radio and *)
(* the DIO1 interrupt handler that notifies the task.                      *)
(***************************************************************************)
\* Everything but the wrapper and the UART writer: the UART driver's state,
\* which they leave alone.
uartDriverVars ==
    << pc, op, calls, cfg, cfgNull, handleNull, handle, m0, m1, uart, rxbuf,
       cfg_reg, i, attempt, cfgRet, ret, handlePre, linesPre, uartPre,
       writes, nGpio, nInstall, delays, modAckAt, ackRead, steps, lookup,
       data, target_addr, buffer_size, rssiNull, packet, txWritten, wire,
       buffer, received_len, rssi, temp_buffer, readLen, outPre, rxPre,
       mismatch, sinceWrite, air, frameIn, prevTemp, ready >>

\* Arguments of lora_sx1262_receive and lora_sx1262_wait_packet: len, and
\* timeout_ms with 0 for no timeout.
LoraLens == { 0, 16, 256 }

\* The longest packet lora_sx1262_transmit accepts (lora_sx1262.cpp:315).
LORA_MAX_PACKET == 255
LoraTimeouts == { 0, 1000 }

\* Results of a RadioLib call.
RadioStates == { "RADIOLIB_ERR_NONE", "RADIOLIB_ERR_SPI_CMD_FAILED" }

\* What the radio may have received when it raises DIO1.
RadioEvents == { "packet", "crc_packet", "bad_read" }

\* radio->readData on what the radio holds.
readData(event) ==
    CASE event = "packet" -> "RADIOLIB_ERR_NONE"
      [] event = "crc_packet" -> "RADIOLIB_ERR_CRC_MISMATCH"
      [] OTHER -> "RADIOLIB_ERR_SPI_CMD_FAILED"

\* A call begins: its function, and the histories of the call reset.
LoraBegin(fn) ==
    [ lora EXCEPT !.fn = fn, !.err = "none", !.started = FALSE,
                  !.outcome = "none", !.touched = FALSE,
                  !.pending = "none",
                  !.pre = [ initialized |-> lora.initialized,
                            radio |-> lora.radio,
                            radio_module |-> lora.radio_module,
                            stored |-> lora.stored,
                            mode |-> lora.mode ] ]

\* The pins and configurations an application may pass to lora_sx1262_init,
\* by identity; stored = 0 is the zero-initialised statics.
LoraSettings == { 1, 2 }

\* How the two allocations of lora_sx1262_init may end
\* (lora_sx1262.cpp:96-109).
AllocOutcomes == { "ok", "module_null", "radio_null" }

\* A wrapper function's test of the driver state before it uses the radio
\* (lora_sx1262.cpp:196, 208, 222, 280, 312).
not_init(w) == ~w.initialized \/ ~w.radio

\* The clean-up of lora_sx1262_init after a radio call failed
\* (lora_sx1262.cpp:130-136, 141-147, 152-158), with every field but one
\* as the code leaves it: radio_module stays set.
init_failed_module_kept(w) ==
    [ w EXCEPT !.lpc = "done", !.radio = FALSE,
               !.err = "LORA_SX1262_ERR_INIT" ]

\* The clean-up of lora_sx1262_init after a radio call failed: both objects
\* deleted, both pointers NULL (lora_sx1262.cpp:130-136, 141-147, 152-158).
init_failed(w) ==
    [ w EXCEPT !.lpc = "done", !.radio = FALSE, !.radio_module = FALSE,
               !.err = "LORA_SX1262_ERR_INIT" ]

\* lora_sx1262_init (lora_sx1262.cpp:69-164): the argument test, the early
\* return of an initialised driver, the copies of pins and configuration,
\* the two allocations, and begin, setRxBoostedGainMode and startReceive,
\* each of which may fail.
LoraInit ==
    /\ lora.lpc = "idle"
    /\ lora.ncalls < MaxCalls
    /\ \E pinsNull \in BOOLEAN, configNull \in BOOLEAN,
          setting \in LoraSettings, alloc \in AllocOutcomes,
          begin \in RadioStates, boost \in RadioStates,
          start \in RadioStates :
          LET w == LoraBegin("init")
              s == [ w EXCEPT !.stored = setting ]
              r == [ s EXCEPT !.radio_module = TRUE, !.radio = TRUE,
                              !.touched = TRUE ]
          IN  lora' =
                IF pinsNull \/ configNull
                THEN [ w EXCEPT !.lpc = "done",
                                !.err = "LORA_SX1262_ERR_INVALID_ARG" ]
                ELSE IF w.initialized
                THEN [ w EXCEPT !.lpc = "done", !.err = "LORA_SX1262_OK" ]
                ELSE IF alloc = "module_null"
                THEN [ s EXCEPT !.lpc = "done", !.radio_module = FALSE,
                                !.err = "LORA_SX1262_ERR_INIT" ]
                ELSE IF alloc = "radio_null"
                THEN [ s EXCEPT !.lpc = "done", !.radio_module = FALSE,
                                !.radio = FALSE,
                                !.err = "LORA_SX1262_ERR_INIT" ]
                ELSE IF begin # "RADIOLIB_ERR_NONE"
                THEN init_failed([ r EXCEPT !.mode = "none" ])
                ELSE IF boost # "RADIOLIB_ERR_NONE"
                        \/ start # "RADIOLIB_ERR_NONE"
                THEN init_failed([ r EXCEPT !.mode = "standby" ])
                ELSE [ r EXCEPT !.lpc = "done", !.mode = "receive",
                                !.started = TRUE, !.initialized = TRUE,
                                !.notify = 0, !.event = "none",
                                !.err = "LORA_SX1262_OK" ]
    /\ UNCHANGED << uartDriverVars, writer >>

\* lora_sx1262_deinit (lora_sx1262.cpp:169-189).
LoraDeinit ==
    /\ lora.lpc = "idle"
    /\ lora.ncalls < MaxCalls
    /\ lora' = IF ~lora.initialized
               THEN [ LoraBegin("deinit") EXCEPT
                          !.lpc = "done", !.err = "LORA_SX1262_ERR_NOT_INIT" ]
               ELSE [ LoraBegin("deinit") EXCEPT
                          !.lpc = "done",
                          !.mode = IF lora.radio THEN "sleep" ELSE lora.mode,
                          !.touched = lora.radio,
                          !.radio = FALSE, !.radio_module = FALSE,
                          !.initialized = FALSE, !.err = "LORA_SX1262_OK" ]
    /\ UNCHANGED << uartDriverVars, writer >>

\* lora_sx1262_standby (lora_sx1262.cpp:194-201).
LoraStandby ==
    /\ lora.lpc = "idle"
    /\ lora.ncalls < MaxCalls
    /\ IF not_init(lora)
       THEN lora' = [ LoraBegin("standby") EXCEPT
                          !.lpc = "done", !.err = "LORA_SX1262_ERR_NOT_INIT" ]
       ELSE \E state \in RadioStates :
               lora' = IF state = "RADIOLIB_ERR_NONE"
                       THEN [ LoraBegin("standby") EXCEPT
                                  !.lpc = "done", !.mode = "standby",
                                  !.touched = TRUE,
                                  !.err = "LORA_SX1262_OK" ]
                       ELSE [ LoraBegin("standby") EXCEPT
                                  !.lpc = "done", !.touched = TRUE,
                                  !.err = "LORA_SX1262_ERR_INIT" ]
    /\ UNCHANGED << uartDriverVars, writer >>

\* lora_sx1262_start_receive (lora_sx1262.cpp:206-213) applied to the
\* wrapper state w; next is where the caller goes on when it succeeded.
start_receive(w, state, next) ==
    IF not_init(w)
    THEN [ w EXCEPT !.lpc = "done", !.err = "LORA_SX1262_ERR_NOT_INIT" ]
    ELSE IF state # "RADIOLIB_ERR_NONE"
    THEN [ w EXCEPT !.lpc = "done", !.touched = TRUE,
                    !.err = "LORA_SX1262_ERR_INIT" ]
    ELSE [ w EXCEPT !.lpc = next, !.mode = "receive", !.started = TRUE,
                    !.touched = TRUE, !.err = "LORA_SX1262_OK" ]

LoraStartReceive ==
    /\ lora.lpc = "idle"
    /\ lora.ncalls < MaxCalls
    /\ \E state \in RadioStates :
          lora' = start_receive(LoraBegin("start_receive"), state, "done")
    /\ UNCHANGED << uartDriverVars, writer >>

\* lora_sx1262_receive up to its call of lora_sx1262_wait_packet
\* (lora_sx1262.cpp:278-291).
LoraReceiveCall ==
    /\ lora.lpc = "idle"
    /\ lora.ncalls < MaxCalls
    /\ \E dn \in BOOLEAN, l \in LoraLens, t \in LoraTimeouts,
          state \in RadioStates :
          lora' = start_receive(
                      [ LoraBegin("receive") EXCEPT
                            !.dataNull = dn, !.len = l, !.timeout_ms = t ],
                      state, "wait_entry")
    /\ UNCHANGED << uartDriverVars, writer >>

\* The argument checks of lora_sx1262_wait_packet and the clearing of the
\* task's pending notifications (lora_sx1262.cpp:220-231), applied to w.
wait_packet_entry(w) ==
    IF not_init(w)
    THEN [ w EXCEPT !.lpc = IF w.fn = "receive" THEN "wrap" ELSE "done",
                    !.err = "LORA_SX1262_ERR_NOT_INIT" ]
    ELSE IF w.dataNull \/ w.len = 0
    THEN [ w EXCEPT !.lpc = IF w.fn = "receive" THEN "wrap" ELSE "done",
                    !.err = "LORA_SX1262_ERR_INVALID_ARG" ]
    ELSE [ w EXCEPT !.lpc = "waiting", !.notify = 0,
                    !.pending = IF w.notify > 0 THEN w.event ELSE "none" ]

\* lora_sx1262_wait_packet called by the application.
LoraWaitPacketCall ==
    /\ lora.lpc = "idle"
    /\ lora.ncalls < MaxCalls
    /\ \E dn \in BOOLEAN, l \in LoraLens, t \in LoraTimeouts :
          lora' = wait_packet_entry(
                      [ LoraBegin("wait_packet") EXCEPT
                            !.dataNull = dn, !.len = l, !.timeout_ms = t ])
    /\ UNCHANGED << uartDriverVars, writer >>

\* lora_sx1262_wait_packet called by lora_sx1262_receive.
LoraWaitEntry ==
    /\ lora.lpc = "wait_entry"
    /\ lora' = wait_packet_entry(lora)
    /\ UNCHANGED << uartDriverVars, writer >>

\* The radio, commanded to receive, gets a packet and raises DIO1;
\* dio1_isr_wrapper notifies the task (lora_sx1262.cpp:49-56).
Dio1Interrupt ==
    /\ lora.initialized
    /\ lora.mode = "receive"
    /\ lora.notify = 0
    /\ lora.lpc # "done"
    /\ \E e \in RadioEvents :
          lora' = [ lora EXCEPT !.notify = 1, !.event = e ]
    /\ UNCHANGED << uartDriverVars, writer >>

\* ulTaskNotifyTake returns 0 after timeout_ms: standby and
\* LORA_SX1262_ERR_RX_TIMEOUT (lora_sx1262.cpp:234-239).
LoraWaitTimeout ==
    /\ lora.lpc = "waiting"
    /\ lora.notify = 0
    /\ lora.timeout_ms > 0
    /\ lora' = [ lora EXCEPT
                     !.lpc = IF lora.fn = "receive" THEN "wrap" ELSE "done",
                     !.mode = "standby",
                     !.touched = TRUE,
                     !.outcome = "timeout",
                     !.err = "LORA_SX1262_ERR_RX_TIMEOUT" ]
    /\ UNCHANGED << uartDriverVars, writer >>

\* The notification is taken and the packet read (lora_sx1262.cpp:244-272).
LoraWaitTake ==
    /\ lora.lpc = "waiting"
    /\ lora.notify > 0
    /\ LET state == readData(lora.event)
           next == IF lora.fn = "receive" THEN "wrap" ELSE "done"
       IN  lora' = IF state = "RADIOLIB_ERR_CRC_MISMATCH"
                   THEN [ lora EXCEPT !.lpc = next, !.notify = 0,
                                      !.outcome = lora.event,
                                      !.touched = TRUE,
                                      !.event = "none",
                                      !.mode = "receive",
                                      !.err = "LORA_SX1262_ERR_CRC" ]
                   ELSE IF state # "RADIOLIB_ERR_NONE"
                   THEN [ lora EXCEPT !.lpc = next, !.notify = 0,
                                      !.outcome = lora.event,
                                      !.touched = TRUE,
                                      !.event = "none",
                                      !.err = "LORA_SX1262_ERR_INIT" ]
                   ELSE [ lora EXCEPT !.lpc = next, !.notify = 0,
                                      !.outcome = lora.event,
                                      !.touched = TRUE,
                                      !.event = "none",
                                      !.mode = "receive",
                                      !.err = "LORA_SX1262_OK" ]
    /\ UNCHANGED << uartDriverVars, writer >>

\* What lora_sx1262_receive returns for the result of its wait
\* (lora_sx1262.cpp:292-295, 302).
receive_result(err) ==
    IF err = "LORA_SX1262_ERR_CRC" THEN "LORA_SX1262_ERR_RX_TIMEOUT" ELSE err

\* lora_sx1262_receive after its wait (lora_sx1262.cpp:292-302).
LoraReceiveWrap ==
    /\ lora.lpc = "wrap"
    /\ lora' = [ lora EXCEPT
                     !.lpc = "done",
                     !.mode = IF lora.err = "LORA_SX1262_OK"
                              THEN "standby" ELSE lora.mode,
                     !.err = receive_result(lora.err) ]
    /\ UNCHANGED << uartDriverVars, writer >>

\* lora_sx1262_transmit (lora_sx1262.cpp:310-335): the driver and argument
\* tests, the clearing of the task's notifications, the blocking transmit,
\* and the return to continuous receive.
LoraTransmit ==
    /\ lora.lpc = "idle"
    /\ lora.ncalls < MaxCalls
    /\ \E dn \in BOOLEAN, l \in LoraLens, state \in RadioStates :
          LET w == [ LoraBegin("transmit") EXCEPT !.dataNull = dn, !.len = l ]
          IN  lora' =
                IF not_init(w)
                THEN [ w EXCEPT !.lpc = "done",
                                !.err = "LORA_SX1262_ERR_NOT_INIT" ]
                ELSE IF dn \/ l = 0 \/ l > LORA_MAX_PACKET
                THEN [ w EXCEPT !.lpc = "done",
                                !.err = "LORA_SX1262_ERR_INVALID_ARG" ]
                ELSE IF state # "RADIOLIB_ERR_NONE"
                THEN [ w EXCEPT !.lpc = "done", !.notify = 0,
                                !.event = "none", !.mode = "standby",
                                !.touched = TRUE,
                                !.err = "LORA_SX1262_ERR_INIT" ]
                ELSE [ w EXCEPT !.lpc = "done", !.notify = 0,
                                !.event = "none", !.mode = "receive",
                                !.started = TRUE, !.touched = TRUE,
                                !.err = "LORA_SX1262_OK" ]
    /\ UNCHANGED << uartDriverVars, writer >>

\* The wrapper call has returned.
LoraReturn ==
    /\ lora.lpc = "done"
    /\ lora' = [ lora EXCEPT !.lpc = "idle", !.ncalls = lora.ncalls + 1 ]
    /\ UNCHANGED << uartDriverVars, writer >>

InitRadio == Init /\ ~handle.is_configured /\ m0 /\ m1

NextRadio ==
    \/ LoraInit
    \/ LoraDeinit
    \/ LoraStandby
    \/ LoraStartReceive
    \/ LoraReceiveCall
    \/ LoraWaitPacketCall
    \/ LoraWaitEntry
    \/ Dio1Interrupt
    \/ LoraWaitTimeout
    \/ LoraWaitTake
    \/ LoraReceiveWrap
    \/ LoraTransmit
    \/ LoraReturn

SpecRadio == InitRadio /\ [][NextRadio]_vars

(***************************************************************************)
(* The UART writer of uart-interrupt-wakeup/main/main.c.                   *)
(***************************************************************************)
\* uint8_t packet[256] of uart_write_packet (main.c:226).
WRITER_PACKET_SIZE == 256

\* The frequency app_main subtracts to get freq_offset (main.c:375).
WRITER_BAND_START == 850

\* Writes of the writer task that are followed.
MaxWrites == 2

\* Values of the statics freq and target_addr a build may carry: the ones in
\* the source, both ends of the band, the frequency whose offset is the
\* terminator byte, and the broadcast address.
WriterFreqs == { WRITER_BAND_START, 860, WRITER_FREQ, 930 }
WriterTargets == { WRITER_TARGET_ADDR, 65535 }

\* Messages passed to uart_write_packet: message_len bytes of 'A', the last
\* of them 'A' or a newline. The lengths are those around the test of
\* main.c:237 and short ones.
WriterLens == { 0, 1, 2, 100, 248, 249, 250 }
WriterLastBytes == { 65, NEWLINE }
WriterMessage(len, last) ==
    [ k \in 1..len |-> IF k = len THEN last ELSE 65 ]

\* The six header bytes uart_write_packet builds from the statics
\* (main.c:229-235).
uart_write_header(w) ==
    << (w.target_addr \div 256) % 256, w.target_addr % 256,
       w.freq_offset % 256,
       (w.own_addr \div 256) % 256, w.own_addr % 256,
       w.freq_offset % 256 >>

\* The packet uart_write_packet hands to uart_write_bytes (main.c:224-249):
\* the header, the message when it is not empty and header and message
\* stay below sizeof(packet) - 1, and a newline unless the last byte
\* already is one.
uart_write_packet(w, message) ==
    LET header == uart_write_header(w)
        idx == Len(header)
        body == IF Len(message) > 0
                   /\ idx + Len(message) < WRITER_PACKET_SIZE - 1
                THEN header \o message
                ELSE header
    IN  IF Len(body) = 0 \/ body[Len(body)] # NEWLINE
        THEN Append(body, NEWLINE)
        ELSE body

\* app_main computes freq_offset and starts the task (main.c:366-377).
WriterAppMain ==
    /\ writer.wpc = "boot"
    /\ writer' = [ writer EXCEPT !.wpc = "task",
                                 !.freq_offset = writer.freq
                                                 - WRITER_BAND_START ]
    /\ UNCHANGED << uartDriverVars, lora >>

\* One uart_write_packet(message, message_len) of the writer task, on a
\* port whose driver init_uart2 installed: uart_write_bytes takes the whole
\* packet (main.c:224-255, 300-306).
WriterWrite ==
    /\ writer.wpc = "task"
    /\ writer.message_counter < MaxWrites
    /\ \E len \in WriterLens, last \in WriterLastBytes :
          LET message == WriterMessage(len, last)
              p == uart_write_packet(writer, message)
          IN  writer' = [ writer EXCEPT
                              !.message = message,
                              !.written = p,
                              !.bytes_written = Len(p),
                              !.message_counter = writer.message_counter + 1 ]
    /\ UNCHANGED << uartDriverVars, lora >>

InitWriter ==
    /\ DriverInit
    /\ ~handle.is_configured /\ m0 /\ m1
    /\ writer \in { [ WriterOff EXCEPT !.freq = f, !.target_addr = t ] :
                        f \in WriterFreqs, t \in WriterTargets }

NextWriter ==
    \/ WriterAppMain
    \/ WriterWrite

SpecWriter == InitWriter /\ [][NextWriter]_vars

(***************************************************************************)
(* Properties.                                                             *)
(***************************************************************************)
InitDone == op = "init" /\ pc = "done"

\* The supported bands, written out.
InBand400(f) == f >= 410 /\ f <= 493
InBand900(f) == f >= 850 /\ f <= 930
BandOffset(f) == IF InBand900(f) THEN f - 850 ELSE f - 410

\* C1: in one sx1262_init on a valid configuration during which no response
\* read begins with 0xC1, the register is written exactly
\* SX1262_CFG_RETRY_ATTEMPTS (3) times and the call returns ESP_FAIL.
C1_NoAckWritesMaxAttempts ==
    (InitDone /\ ret # "ESP_ERR_INVALID_ARG" /\ ~ackRead)
        => (writes = SX1262_CFG_RETRY_ATTEMPTS /\ ret = "ESP_FAIL")

\* What the code does instead: every one of the 3 sx1262_send_config calls
\* made by sx1262_init writes the register 3 times. With delays = 8 every
\* one of the 9 writes was complete and went unanswered or badly answered.
C1_Reached ==
    InitDone /\ ret = "ESP_FAIL" /\ ~ackRead
    /\ writes = SX1262_CFG_RETRY_ATTEMPTS * SX1262_CFG_RETRY_ATTEMPTS
    /\ delays = 8

\* C2: when the module answers the first write of the register with a
\* response that begins with 0xC1, sx1262_init succeeds after exactly one
\* write, with no second write and no retry delay.
C2_AckOnFirstWrite ==
    (op = "init" /\ modAckAt = 1)
        => /\ writes = 1
           /\ delays = 0
           /\ pc # "aborted"
           /\ ret \in {"none", "ESP_OK"}
           /\ pc = "done" => ret = "ESP_OK"

C2_Witness ==
    InitDone /\ modAckAt = 1 /\ ret = "ESP_OK" /\ writes = 1

\* C3: when the module answers 0xC1 only to the third write (the first two
\* were short, unanswered or answered with another first byte), sx1262_init
\* succeeds and the register has been written exactly 3 times.
C3_AckOnThirdWrite ==
    (op = "init" /\ modAckAt = 3)
        => /\ writes = 3
           /\ pc # "aborted"
           /\ ret \in {"none", "ESP_OK"}
           /\ pc = "done" => ret = "ESP_OK"

C3_Witness ==
    InitDone /\ modAckAt = 3 /\ ret = "ESP_OK" /\ writes = 3 /\ delays = 2

\* C4: sx1262_init returns ESP_OK only if a read made after a complete
\* 12-byte write returned at least one byte, the first being 0xC1; and a
\* call that used up all its retries returns a failure.
C4_OkOnlyAfterAckRead ==
    op = "init"
        => /\ (ret = "ESP_OK" \/ cfgRet = "ESP_OK") => ackRead
           /\ (pc = "done" /\ i >= SX1262_CFG_RETRY_ATTEMPTS) => ret = "ESP_FAIL"

C4_Witness ==
    InitDone /\ i >= SX1262_CFG_RETRY_ATTEMPTS /\ ret = "ESP_FAIL" /\ ~ackRead
    /\ writes = 9

\* C5: while sx1262_init has not returned ESP_OK, and when it returns an
\* error, the caller's handle is as it was before the call; when it returns
\* ESP_OK the handle holds the configuration's address, frequency offset and
\* rssi_enabled, and is_configured is true.
C5_NoPartialConfiguration ==
    op = "init"
        => IF ret = "ESP_OK"
           THEN /\ handle.addr = cfg.addr
                /\ handle.offset_freq = BandOffset(cfg.freq)
                /\ handle.rssi_enabled = cfg.rssi_enabled
                /\ handle.is_configured
           ELSE handle = handlePre

C5_Witness ==
    InitDone /\ ret = "ESP_FAIL" /\ ~handle.is_configured /\ writes = 9

\* A second witness of C5: the successful case on a handle that was not
\* configured before.
C5_WitnessOk ==
    InitDone /\ ret = "ESP_OK" /\ ~handlePre.is_configured /\ handle.is_configured

\* C6 as stated: after the acknowledgement the channel is closed, reopened
\* at the operating baud rate, and only then are the mode lines set to
\* configuration mode again and, after a wait, to normal mode.
HardwareSteps(x) == x \in {"close", "open", "config_mode", "normal_mode"}

C6_ReopenBeforeConfigMode ==
    (InitDone /\ ret = "ESP_OK")
        => /\ SelectSeq(steps, HardwareSteps)
                = << "close", "open", "config_mode", "normal_mode" >>
           /\ uart[cfg.uart_num] = [ installed |-> TRUE, baud |-> 115200 ]
           /\ m0 = FALSE /\ m1 = FALSE

\* C6 (amended): after the acknowledgement sx1262_init closes the channel,
\* waits, sets configuration mode again, waits, reopens the channel at the
\* operating baud rate, flushes it, waits and sets normal mode; on ESP_OK
\* the channel is open at 115200 baud and the lines are M0=LOW, M1=LOW.
C6_PostAckSequence ==
    (InitDone /\ ret = "ESP_OK")
        => /\ steps = << "close", "wait", "config_mode", "wait", "open",
                         "flush", "wait", "normal_mode" >>
           /\ uart[cfg.uart_num] = [ installed |-> TRUE, baud |-> 115200 ]
           /\ m0 = FALSE /\ m1 = FALSE

C6_Witness ==
    InitDone /\ ret = "ESP_OK" /\ Len(steps) = 8 /\ uart[1].baud = 115200

\* C7: a NULL config, a NULL handle or a frequency in neither band makes
\* sx1262_init return ESP_ERR_INVALID_ARG before any GPIO level is set, any
\* UART driver is installed or any byte is written.
C7_InvalidArgBeforeAnyIO ==
    (op = "init" /\ (cfgNull \/ handleNull
                       \/ ~(InBand400(cfg.freq) \/ InBand900(cfg.freq))))
        => /\ pc = "done"
           /\ ret = "ESP_ERR_INVALID_ARG"
           /\ nGpio = 0 /\ nInstall = 0 /\ writes = 0
           /\ << m0, m1 >> = linesPre
           /\ uart = uartPre
           /\ handle = handlePre

C7_Witness ==
    InitDone /\ ~cfgNull /\ ~handleNull /\ cfg.freq = 500
    /\ ret = "ESP_ERR_INVALID_ARG"

\* The offset computations of sx1262_init and sx1262_build_config_reg over
\* every frequency of both bands, with the other fields as in cfg.
AllBandFrequenciesOffset ==
    \A f \in (410 .. 493) \cup (850 .. 930) :
        LET c == [cfg EXCEPT !.freq = f]
        IN  /\ ~init_freq_invalid(f)
            /\ init_store_handle(handle, c).offset_freq = BandOffset(f)
            /\ LowByte(reg_freq_offset(f)) = BandOffset(f)
            /\ BandOffset(f) \in 0 .. 255

\* C8: for every accepted frequency the offset stored in the handle is the
\* frequency minus the start of its band, equals byte 8 of the register
\* built for the same configuration and fits in one byte; 868 gives 18 and
\* 430 gives 20. (The computation over all band frequencies reads nothing
\* but the frequency, so it is evaluated in the first call only.)
C8_FrequencyOffset ==
    (InitDone /\ ret = "ESP_OK")
        => /\ InBand400(cfg.freq) \/ InBand900(cfg.freq)
           /\ handle.offset_freq = BandOffset(cfg.freq)
           /\ handle.offset_freq = cfg_reg[9]
           /\ handle.offset_freq \in 0 .. 255
           /\ cfg.freq = 868 => handle.offset_freq = 18
           /\ cfg.freq = 430 => handle.offset_freq = 20
           /\ (calls = 0 /\ writes = 1) => AllBandFrequenciesOffset

C8_Witness ==
    InitDone /\ ret = "ESP_OK" /\ cfg.freq = 868 /\ handle.offset_freq = 18
    /\ cfg_reg[9] = 18

\* Register codes of the documented enumerations.
AirCodes ==
    (1200 :> 1) @@ (2400 :> 2) @@ (4800 :> 3) @@ (9600 :> 4) @@ (19200 :> 5)
    @@ (38400 :> 6) @@ (62500 :> 7)
BufferCodes == (240 :> 0) @@ (128 :> 64) @@ (64 :> 128) @@ (32 :> 192)
PowerCodes == (22 :> 0) @@ (17 :> 1) @@ (13 :> 2) @@ (10 :> 3)
BaudCodes ==
    (1200 :> 0) @@ (2400 :> 32) @@ (4800 :> 64) @@ (9600 :> 96)
    @@ (19200 :> 128) @@ (38400 :> 160) @@ (57600 :> 192) @@ (115200 :> 224)

\* The 12 register bytes of the specification; the fields packed into one
\* byte occupy disjoint bits, so their OR is their sum.
ExpectedRegister(c) ==
    << IF c.persistent_config THEN 192 ELSE 194,
       0,
       9,
       c.addr \div 256,
       c.addr % 256,
       c.net_id,
       224 + AirCodes[c.air_speed],
       BufferCodes[c.buffer_size] + PowerCodes[c.power] + 32,
       BandOffset(c.freq),
       IF c.rssi_enabled THEN 195 ELSE 67,
       c.crypt_key \div 256,
       c.crypt_key % 256 >>

\* C9: for every valid configuration sx1262_build_config_reg produces the
\* 12 bytes [header, 0x00, 0x09, addr>>8, addr&0xFF, net_id, uart|air,
\* buffer|power|0x20, freq_offset, 0x43|rssi bit, key>>8, key&0xFF], and
\* bytes 3-4, 5 and 8 read back give the address, network id and offset.
C9_RegisterLayout ==
    pc = "build_out"
        => /\ Len(cfg_reg) = 12
           /\ \A k \in 1 .. 12 : cfg_reg[k] \in 0 .. 255
           /\ cfg_reg = ExpectedRegister(cfg)
           /\ cfg_reg[4] * 256 + cfg_reg[5] = cfg.addr
           /\ cfg_reg[6] = cfg.net_id
           /\ cfg_reg[9] = BandOffset(cfg.freq)

C9_Witness ==
    /\ pc = "build_out"
    /\ cfg.addr = 43981 /\ cfg.persistent_config /\ cfg.rssi_enabled
    /\ cfg.freq = 868 /\ cfg.air_speed = 62500 /\ cfg.buffer_size = 32
    /\ cfg.power = 10 /\ cfg.crypt_key = 4660 /\ cfg.net_id = 255
    /\ cfg_reg = << 192, 0, 9, 171, 205, 255, 231, 227, 18, 195, 18, 52 >>

\* The defined air data rates closest to a.
Distance(a, b) == IF a >= b THEN a - b ELSE b - a
NearestAirSpeeds(a) ==
    { r \in DOMAIN AirCodes : \A q \in DOMAIN AirCodes : Distance(a, r) <= Distance(a, q) }

LookupTable(kind) ==
    CASE kind = "air_speed" -> AirCodes
      [] kind = "buffer_size" -> BufferCodes
      [] kind = "power" -> PowerCodes
      [] kind = "uart_baud" -> BaudCodes

\* C10 as stated: every lookup yields a code for any input, and the
\* air-speed lookup maps an undefined rate to the code of the nearest
\* defined rate.
C10_NearestAirSpeed ==
    pc = "lookup_out"
        => /\ lookup.code \in 0 .. 255
           /\ (lookup.kind = "air_speed" /\ lookup.input \notin DOMAIN AirCodes)
                 => \E r \in NearestAirSpeeds(lookup.input) :
                       lookup.code = AirCodes[r]

\* C10 (amended): every lookup yields a code for any input: the table's
\* code for a defined value and a fixed default otherwise, which for the
\* air-speed lookup is 0x02, the code of 2400 bps, whatever the input.
C10_TotalWithFixedDefault ==
    pc = "lookup_out"
        => /\ lookup.code \in 0 .. 255
           /\ lookup.input \in DOMAIN LookupTable(lookup.kind)
                 => lookup.code = LookupTable(lookup.kind)[lookup.input]
           /\ lookup.input \notin DOMAIN LookupTable(lookup.kind)
                 => lookup.code =
                       CASE lookup.kind = "air_speed" -> AirCodes[2400]
                         [] lookup.kind = "buffer_size" -> BufferCodes[240]
                         [] lookup.kind = "power" -> PowerCodes[22]
                         [] lookup.kind = "uart_baud" -> BaudCodes[9600]

C10_Witness ==
    /\ pc = "lookup_out"
    /\ lookup.kind = "air_speed" /\ lookup.input = 60000 /\ lookup.code = 2

(***************************************************************************)
(* Properties of the link.                                                 *)
(***************************************************************************)
\* A call of sx1262_send with a handle that sx1262_init configured.
SendDone ==
    op = "send" /\ pc = "done" /\ ~handleNull /\ handlePre.is_configured

\* The frame of the packet format, written out.
ExpectedFrame(tgt, own, offset, payload) ==
    << tgt \div 256, tgt % 256, offset, own \div 256, own % 256, offset >>
    \o payload \o << 10 >>

ConfiguredHandles == { h \in LinkHandles : h.is_configured }

\* The frame of every message length from lo to 240, for every configured
\* handle and target address of the model.
AllLengthsFramed(lo) ==
    \A n \in lo .. 240, h \in ConfiguredHandles, tgt \in Targets :
        LET d == Pattern(0, n)
            f == send_packet(h, tgt, d, n)
        IN  /\ f = ExpectedFrame(tgt, h.addr, h.offset_freq, d)
            /\ Len(f) = 7 + n

\* C11 as stated: for every target address, configured handle and message of
\* 0 to 240 bytes, sx1262_send hands the channel target address (high, low),
\* offset, own address (high, low), offset, the message and 0x0A, 7+N bytes.
C11_FrameLayout ==
    (SendDone /\ Len(data) <= 240)
        => /\ packet = ExpectedFrame(target_addr, handle.addr,
                                     handle.offset_freq, data)
           /\ Len(packet) = 7 + Len(data)
           /\ Len(packet) \in 7 .. 247
           /\ txWritten = Len(packet) => wire[Len(wire)] = packet

\* C11 for the messages sx1262_send accepts: a message of 1 to 240 bytes is
\* framed as the packet format says, in 8 to 247 bytes; an empty message is
\* refused with ESP_ERR_INVALID_ARG and nothing reaches the channel.
C11_FrameLayoutNonEmpty ==
    /\ (SendDone /\ Len(data) >= 1 /\ Len(data) <= 240)
          => /\ packet = ExpectedFrame(target_addr, handle.addr,
                                       handle.offset_freq, data)
             /\ Len(packet) = 7 + Len(data)
             /\ Len(packet) \in 8 .. 247
             /\ txWritten = Len(packet) => wire[Len(wire)] = packet
    /\ (SendDone /\ Len(data) = 0)
          => /\ ret = "ESP_ERR_INVALID_ARG"
             /\ packet = << >>
             /\ wire = << >>
    /\ (SendDone /\ calls = 0 /\ data = << 65 >> /\ target_addr = 65535
           /\ handle.addr = 1
           /\ ret = "ESP_OK")
          => AllLengthsFramed(1)

C11_Witness ==
    /\ SendDone
    /\ ret = "ESP_OK"
    /\ Len(data) = 240
    /\ Len(packet) = 247
    /\ target_addr = 2570
    /\ handle.addr = 43981

\* C12: a message longer than 240 bytes is not refused: the packet is the
\* header, the first 240 bytes of the message and the terminator, 247 bytes
\* that fit the 256-byte packet array, and the call returns ESP_OK when the
\* channel takes them all.
C12_LongPayloadTruncated ==
    (SendDone /\ Len(data) > 240)
        => /\ packet = ExpectedFrame(target_addr, handle.addr,
                                     handle.offset_freq, SubSeq(data, 1, 240))
           /\ Len(packet) = 247
           /\ Len(packet) <= PACKET_SIZE
           /\ ret \in { "ESP_OK", "ESP_FAIL" }
           /\ txWritten = 247 => ret = "ESP_OK"

C12_Witness ==
    /\ SendDone
    /\ Len(data) = 300
    /\ ret = "ESP_OK"
    /\ Len(wire) = 1
    /\ Len(wire[1]) = 247

\* A call of sx1262_receive, on a configured handle, that found bytes in the
\* receive ring and read them.
ReceiveRead ==
    /\ op = "receive"
    /\ pc = "done"
    /\ ~handleNull
    /\ handlePre.is_configured
    /\ Len(rxPre) > 0
    /\ readLen >= 0

\* The call of sx1262_receive that follows a send of at most 240 bytes whose
\* frame the channel took in full and the radio delivered, less its first
\* three bytes, into an empty receive ring; the caller's buffer is large
\* enough for the message.
RoundTripDone ==
    /\ ReceiveRead
    /\ packet # << >>
    /\ txWritten = Len(packet)
    /\ Len(data) <= 240
    /\ rxPre = Drop(packet, 3)
    /\ buffer_size >= Len(data)

\* C13 as stated: a message of up to 240 bytes that sx1262_send framed and the
\* radio delivered without its first three bytes comes out of sx1262_receive
\* as exactly the original message, after the sender's address and offset.
C13_RoundTrip ==
    RoundTripDone
        => /\ ret = "ESP_OK"
           /\ received_len = Len(data)
           /\ SubSeq(buffer, 1, received_len) = data
           /\ SubSeq(temp_buffer, 1, 3)
                 = << handle.addr \div 256, handle.addr % 256,
                      handle.offset_freq >>

\* A round trip that does return the message: 240 bytes of text.
C13_Witness ==
    /\ RoundTripDone
    /\ ret = "ESP_OK"
    /\ Len(data) = 240
    /\ SubSeq(buffer, 1, received_len) = data

\* The terminator and its first position (counted from 0) in bytes read.
HasTerminator(s) == \E k \in 1 .. Len(s) : s[k] = 10

FirstTerminator(s) ==
    CHOOSE n \in 0 .. (Len(s) - 1) :
        s[n + 1] = 10 /\ \A j \in 1 .. n : s[j] # 10

\* Bytes lo .. hi-1 of s, positions counted from 0.
Span(s, lo, hi) == [ k \in 1 .. (hi - lo) |-> s[lo + k] ]

\* The caller's buffer and *received_len are as they were before the call.
NothingDelivered == buffer = outPre[1] /\ received_len = outPre[2]

\* C14: when the bytes read hold no 0x0A, or nothing was read, the call
\* returns ESP_ERR_NOT_FOUND, not a size error and not a message.
C14_NoTerminatorNotFound ==
    ( /\ op = "receive"
      /\ pc = "done"
      /\ ~handleNull
      /\ handlePre.is_configured
      /\ ~HasTerminator(temp_buffer) )
        => /\ ret = "ESP_ERR_NOT_FOUND"
           /\ NothingDelivered
           /\ rssi = outPre[3]

C14_Witness ==
    /\ ReceiveRead
    /\ Len(temp_buffer) = 5
    /\ ~HasTerminator(temp_buffer)
    /\ ret = "ESP_ERR_NOT_FOUND"

\* C15 as stated: a first terminator at index n < 4 gives
\* ESP_ERR_INVALID_SIZE and no payload; for n >= 4 the call never returns
\* that error.
C15_TooShortOnlyBelow4 ==
    (ReceiveRead /\ HasTerminator(temp_buffer))
        => LET n == FirstTerminator(temp_buffer)
           IN  /\ n < 4 => (ret = "ESP_ERR_INVALID_SIZE" /\ NothingDelivered)
               /\ n >= 4 => ret # "ESP_ERR_INVALID_SIZE"

\* The payload span of the bytes read: [3, n-1) when the handle has RSSI
\* enabled and n >= 5, [3, n) otherwise.
RssiPresent(n) == handlePre.rssi_enabled /\ n >= 5

PayloadSpan(s, n) == Span(s, 3, IF RssiPresent(n) THEN n - 1 ELSE n)

\* C15 with the second use of the code: a first terminator at index n < 4
\* gives ESP_ERR_INVALID_SIZE and no payload; for n >= 4 the call returns
\* ESP_ERR_INVALID_SIZE exactly when the payload span is longer than
\* buffer_size, and never for the frame's length.
C15_TooShortBelow4 ==
    (ReceiveRead /\ HasTerminator(temp_buffer))
        => LET n == FirstTerminator(temp_buffer)
           IN  /\ n < 4 => (ret = "ESP_ERR_INVALID_SIZE" /\ NothingDelivered)
               /\ n >= 4 => ( ret = "ESP_ERR_INVALID_SIZE"
                                <=> Len(PayloadSpan(temp_buffer, n)) > buffer_size )

C15_Witness ==
    /\ ReceiveRead
    /\ HasTerminator(temp_buffer)
    /\ FirstTerminator(temp_buffer) = 3
    /\ ret = "ESP_ERR_INVALID_SIZE"
    /\ buffer_size = 256

\* C16 as stated: with RSSI enabled and the first terminator at n >= 5, the
\* payload is [3, n-1) and the RSSI reported is -(256 - raw) for the byte raw
\* at n-1, whatever its value.
C16_RssiValue ==
    ( /\ ReceiveRead
      /\ HasTerminator(temp_buffer)
      /\ handlePre.rssi_enabled
      /\ FirstTerminator(temp_buffer) >= 5
      /\ ~rssiNull )
        => LET n == FirstTerminator(temp_buffer)
               raw == temp_buffer[n]
           IN  /\ rssi = 0 - (256 - raw)
               /\ ret = "ESP_OK"
                    => /\ received_len = n - 4
                       /\ SubSeq(buffer, 1, received_len)
                             = Span(temp_buffer, 3, n - 1)

\* Raw byte 0xE0 is reported as -32.
C16_Witness ==
    /\ ReceiveRead
    /\ handlePre.rssi_enabled
    /\ temp_buffer = << 1, 2, 18, 65, 66, 224, 10 >>
    /\ ret = "ESP_OK"
    /\ rssi = 0 - 32
    /\ SubSeq(buffer, 1, received_len) = << 65, 66 >>

\* C17 as stated: with RSSI disabled, or the first terminator at n = 4, the
\* whole span [3, n) is the payload and the RSSI is reported absent, by a
\* value that no call with an RSSI present reports.
C17_AbsentDistinguishable ==
    (ReceiveRead /\ HasTerminator(temp_buffer) /\ ~rssiNull
       /\ FirstTerminator(temp_buffer) >= 4)
        => LET n == FirstTerminator(temp_buffer)
           IN  IF RssiPresent(n)
               THEN rssi # RSSI_ABSENT
               ELSE /\ rssi = RSSI_ABSENT
                    /\ ret = "ESP_OK"
                         => /\ received_len = n - 3
                            /\ SubSeq(buffer, 1, received_len)
                                  = Span(temp_buffer, 3, n)

\* RSSI disabled: the byte before the terminator stays in the payload.
C17_Witness ==
    /\ ReceiveRead
    /\ ~handlePre.rssi_enabled
    /\ temp_buffer = << 1, 2, 18, 65, 66, 224, 10 >>
    /\ ret = "ESP_OK"
    /\ rssi = RSSI_ABSENT
    /\ SubSeq(buffer, 1, received_len) = << 65, 66, 224 >>

\* Header bytes tried in place of the first three bytes read.
HeaderBytes == { 1, 10, 65 }

\* C18 as stated: the result code, payload and RSSI of a call do not depend
\* on the first three bytes read: with any other three bytes in their place
\* the call would have ended as it did.
C18_HeaderNotInterpreted ==
    (ReceiveRead /\ Len(temp_buffer) >= 3)
        => \A a \in HeaderBytes, b \in HeaderBytes, c \in HeaderBytes :
              LET other == << a, b, c >> \o Drop(temp_buffer, 3)
                  out == receive_decode(handlePre.rssi_enabled, other,
                                        Len(other), buffer_size, rssiNull,
                                        outPre[1], outPre[2], outPre[3])
              IN  /\ out.ret = ret
                  /\ out.buffer = buffer
                  /\ out.received_len = received_len
                  /\ out.rssi = rssi

\* A frame whose header holds no 0x0A is received.
C18_Witness ==
    /\ ReceiveRead
    /\ temp_buffer = << 65, 65, 65, 65, 10 >>
    /\ ret = "ESP_OK"

\* C19: a payload span longer than buffer_size gives ESP_ERR_INVALID_SIZE
\* with the buffer and *received_len untouched; a span that fits is copied
\* to the start of the buffer, nothing else in the buffer changes, and
\* *received_len is its length.
C19_BufferSize ==
    (ReceiveRead /\ HasTerminator(temp_buffer)
       /\ FirstTerminator(temp_buffer) >= 4)
        => LET span == PayloadSpan(temp_buffer, FirstTerminator(temp_buffer))
           IN  IF Len(span) > buffer_size
               THEN ret = "ESP_ERR_INVALID_SIZE" /\ NothingDelivered
               ELSE /\ ret = "ESP_OK"
                    /\ received_len = Len(span)
                    /\ buffer = span \o Drop(outPre[1], Len(span))

C19_Witness ==
    /\ ReceiveRead
    /\ HasTerminator(temp_buffer)
    /\ FirstTerminator(temp_buffer) = 6
    /\ buffer_size = 2
    /\ ~handlePre.rssi_enabled
    /\ ret = "ESP_ERR_INVALID_SIZE"

\* C20: a write that the channel reports short of the frame makes
\* sx1262_send fail; ESP_OK means the channel took the whole frame, header
\* through terminator.
C20_ShortWriteFails ==
    (SendDone /\ packet # << >>)
        => /\ txWritten < Len(packet) => ret = "ESP_FAIL"
           /\ ret = "ESP_OK"
                => /\ txWritten = Len(packet)
                   /\ wire[Len(wire)] = packet
                   /\ packet[Len(packet)] = 10

C20_Witness ==
    /\ SendDone
    /\ packet # << >>
    /\ txWritten = Len(packet) - 1
    /\ ret = "ESP_FAIL"

(***************************************************************************)
(* Properties of the mode lines and of the order of a call's steps.        *)
(***************************************************************************)
ChannelOps == { "uart_write_bytes", "uart_get_buffered_data_len",
                "uart_read_bytes", "uart_flush" }

\* A send or receive that got past its argument and state checks.
LinkCallActed ==
    /\ pc = "done"
    /\ op \in { "send", "receive" }
    /\ ~handleNull
    /\ handlePre.is_configured
    /\ op = "send" => Len(data) > 0

\* C21: in every send and receive on a configured handle the mode lines are
\* driven to Normal (M0 low, M1 low) before the call's first operation on
\* the channel, be it a write, a query of the buffered count or a read.
C21_NormalBeforeChannel ==
    LinkCallActed
        => /\ Len(steps) >= 2
           /\ steps[1] = "set_mode_normal"
           /\ steps[2] \in ChannelOps
           /\ \A k \in 1 .. Len(steps) :
                 steps[k] \in ChannelOps
                     => \E j \in 1 .. k - 1 : steps[j] = "set_mode_normal"
           /\ nGpio = 2
           /\ m0 = FALSE
           /\ m1 = FALSE

C21_Witness ==
    /\ LinkCallActed
    /\ op = "send"
    /\ linesPre = << FALSE, TRUE >>
    /\ steps = << "set_mode_normal", "uart_write_bytes", "tx_delay" >>
    /\ m1 = FALSE
    /\ ret = "ESP_OK"

\* C22: when the channel reports zero buffered bytes, sx1262_receive returns
\* the no-data result at once: it performs no read and no settle delay,
\* consumes nothing from the channel and leaves the caller's buffer,
\* *received_len and *rssi as they were.
C22_NothingBufferedReturnsAtOnce ==
    (LinkCallActed /\ op = "receive" /\ Len(rxPre) = 0)
        => /\ ret = "ESP_ERR_NOT_FOUND"
           /\ steps = << "set_mode_normal", "uart_get_buffered_data_len" >>
           /\ rxbuf = rxPre
           /\ readLen = 0
           /\ << buffer, received_len, rssi >> = outPre

C22_Witness ==
    /\ LinkCallActed
    /\ op = "receive"
    /\ Len(rxPre) = 0
    /\ Len(air) > 0
    /\ air = frameIn
    /\ ret = "ESP_ERR_NOT_FOUND"
    /\ received_len = LEN_UNSET

\* C23: a half-received frame can be recovered: a receive that read a prefix
\* of a frame without its terminator reports no data, and the receive that
\* reads the rest of the frame, through its 0x0A, returns that frame's
\* payload.
C23_HalfFrameRecovered ==
    /\ (LinkCallActed /\ op = "receive" /\ readLen > 0
           /\ ~HasTerminator(temp_buffer))
          => (ret = "ESP_ERR_NOT_FOUND" /\ NothingDelivered)
    /\ (LinkCallActed /\ op = "receive" /\ readLen > 0
           /\ prevTemp # << >> /\ ~HasTerminator(prevTemp)
           /\ prevTemp \o temp_buffer = frameIn)
          => LET out == receive_decode(handlePre.rssi_enabled, frameIn,
                                       Len(frameIn), buffer_size, rssiNull,
                                       outPre[1], outPre[2], outPre[3])
             IN  /\ out.ret = "ESP_OK"
                 /\ ret = "ESP_OK"
                 /\ received_len = out.received_len
                 /\ buffer = out.buffer

\* The rest of a frame was read after its prefix had been read and reported
\* as no data.
C23_Witness ==
    /\ LinkCallActed
    /\ op = "receive"
    /\ readLen > 0
    /\ prevTemp = Take(frameIn, 5)
    /\ temp_buffer = Drop(frameIn, 5)
    /\ HasTerminator(temp_buffer)
    /\ ret = "ESP_ERR_INVALID_SIZE"

\* C24: sx1262_set_mode drives M0 and M1 to the requested levels (Normal:
\* low, low; configuration: low, high) and returns; a mismatch between the
\* levels read back and the levels driven is only reported and never turns
\* the enclosing sx1262_init, sx1262_send or sx1262_receive into a failure.
C24_MismatchOnlyReported ==
    /\ pc = "outer_loop" => << m0, m1 >> = << FALSE, TRUE >>
    /\ (InitDone /\ ret = "ESP_OK") => << m0, m1 >> = << FALSE, FALSE >>
    /\ LinkCallActed => << m0, m1 >> = << FALSE, FALSE >>
    /\ (InitDone /\ mismatch /\ ackRead) => ret = "ESP_OK"
    /\ (LinkCallActed /\ mismatch /\ op = "send" /\ txWritten = Len(packet))
          => ret = "ESP_OK"
    /\ (LinkCallActed /\ mismatch /\ op = "receive")
          => ret \in { "ESP_OK", "ESP_ERR_NOT_FOUND", "ESP_ERR_INVALID_SIZE" }

C24_Witness ==
    /\ InitDone
    /\ mismatch
    /\ ackRead
    /\ ret = "ESP_OK"
    /\ << m0, m1 >> = << FALSE, FALSE >>

\* C30: whatever the handle held before the first call and in whatever
\* order the five functions are called on it, sx1262_send, sx1262_receive
\* and sx1262_get_channel_rssi touch the mode lines or the channel only if
\* the most recent sx1262_init on the handle returned ESP_OK and no
\* sx1262_deinit followed; otherwise, given valid arguments, they return
\* ESP_ERR_INVALID_STATE without any I/O.
ApiCallDone ==
    /\ pc = "done"
    /\ op \in { "send", "receive", "get_channel_rssi" }

ApiArgsValid ==
    /\ ~handleNull
    /\ op = "send" => Len(data) > 0
    /\ op = "get_channel_rssi" => ~rssiNull

C30_IoOnlyAfterInit ==
    ApiCallDone
        => /\ (steps # << >> \/ nGpio > 0) => ready
           /\ (~ready /\ ApiArgsValid)
                 => /\ ret = "ESP_ERR_INVALID_STATE"
                    /\ steps = << >>
                    /\ << m0, m1 >> = linesPre

\* The first call ever made on the handle is a send, and it drives the
\* lines and writes to the channel.
C30_Witness ==
    /\ ApiCallDone
    /\ op = "send"
    /\ calls = 0
    /\ ~ready
    /\ handlePre.is_configured
    /\ steps[1] = "set_mode_normal"
    /\ ret = "ESP_FAIL"

\* The next step is a uart_write_bytes of the register.
RegisterWriteNext == pc = "cfg_write" /\ attempt < SX1262_CFG_RETRY_ATTEMPTS

\* C28: every attempt has the same shape: each 12-byte register write is
\* preceded by a flush of the input done after the previous attempt's write,
\* and every failed attempt that is followed by another, a short write
\* included, is separated from it by the backoff delay.
C28_FlushAndBackoffBeforeEachWrite ==
    RegisterWriteNext
        => /\ "flush" \in sinceWrite
           /\ writes > 0 => "delay" \in sinceWrite

\* A register write follows a short write at once.
C28_Witness ==
    /\ RegisterWriteNext
    /\ writes = 1
    /\ attempt = 1
    /\ sinceWrite = { }

\* C29: in sx1262_init the register is written only while the mode lines
\* are at the configuration levels (M0 low, M1 high) and the channel is open
\* at the configuration baud rate; all through the retry loop the lines are
\* never at Normal and the channel never at the operating baud rate.
C29_WritesInConfigMode ==
    pc \in { "outer_loop", "cfg_write", "cfg_read" }
        => /\ << m0, m1 >> = << FALSE, TRUE >>
           /\ uart[cfg.uart_num] =
                  [ installed |-> TRUE, baud |-> SX1262_UART_CONFIG_BAUD ]

C29_Witness ==
    /\ RegisterWriteNext
    /\ i = 2
    /\ attempt = 2
    /\ writes = 8
    /\ linesPre = << FALSE, FALSE >>
    /\ << m0, m1 >> = << FALSE, TRUE >>

\* C25: every wait inside the driver is bounded: whatever the channel does,
\* a module that keeps delivering bytes or never answers included, each call
\* that has begun eventually returns (or ends in the abort of
\* ESP_ERROR_CHECK).
C25_EveryCallReturns ==
    (pc \notin { "idle", "done", "aborted" }) ~> (pc \in { "done", "aborted" })

\* The first draining loop has bytes to read again after a turn.
C25_Witness ==
    /\ pc = "drain_first"
    /\ writes = 0
    /\ Len(rxbuf) = MaxRing

(***************************************************************************)
(* Properties of the RadioLib wrapper.                                     *)
(***************************************************************************)
\* lora_sx1262_receive has returned after a wait that ended in one of the
\* three ways its contract names.
LoraReceiveDone ==
    /\ lora.lpc = "done"
    /\ lora.fn = "receive"
    /\ lora.started
    /\ lora.outcome \in { "packet", "timeout", "crc_packet" }

\* C26: lora_sx1262_receive returns LORA_SX1262_OK on success,
\* LORA_SX1262_ERR_RX_TIMEOUT when no packet arrives within the timeout, and
\* LORA_SX1262_ERR_CRC when the packet that arrived has a CRC error.
C26_ReceiveResults ==
    LoraReceiveDone
        => /\ lora.outcome = "packet" => lora.err = "LORA_SX1262_OK"
           /\ lora.outcome = "timeout"
                 => lora.err = "LORA_SX1262_ERR_RX_TIMEOUT"
           /\ lora.outcome = "crc_packet" => lora.err = "LORA_SX1262_ERR_CRC"

\* A packet with a CRC error arrived and the call reports a timeout.
C26_Witness ==
    /\ LoraReceiveDone
    /\ lora.outcome = "crc_packet"
    /\ lora.timeout_ms = 0
    /\ lora.err = "LORA_SX1262_ERR_RX_TIMEOUT"

\* C27: lora_sx1262_receive is a single reception that returns the radio to
\* standby: whenever it returns after having started reception (with a
\* packet, a timeout or a corrupted packet), the state the radio was last
\* commanded to is standby, not receive.
C27_StandbyAfterReceive ==
    LoraReceiveDone => lora.mode = "standby"

\* After a corrupted packet the call returns with the radio commanded to
\* receive.
C27_Witness ==
    /\ LoraReceiveDone
    /\ lora.outcome = "crc_packet"
    /\ lora.mode = "receive"

(***************************************************************************)
(* Properties of the caller's outputs and of the frames consumed.          *)
(***************************************************************************)
\* C31: whenever sx1262_receive returns anything other than ESP_OK (no
\* data, incomplete, too short, buffer too small), none of the caller's
\* outputs is modified: the buffer, *received_len and *rssi keep the values
\* they had before the call.
C31_OutputsKeptOnFailure ==
    (op = "receive" /\ pc = "done" /\ ret # "ESP_OK")
        => << buffer, received_len, rssi >> = outPre

\* The payload does not fit the caller's buffer, and *rssi was written.
C31_Witness ==
    /\ ReceiveRead
    /\ ret = "ESP_ERR_INVALID_SIZE"
    /\ HasTerminator(temp_buffer)
    /\ FirstTerminator(temp_buffer) >= 4
    /\ ~rssiNull
    /\ rssi # outPre[3]
    /\ NothingDelivered

\* C32: sx1262_receive consumes from the channel only the frame it returns:
\* with two complete frames buffered when it is called, the call returns the
\* first frame's payload and leaves the second frame in the channel, and the
\* next call returns the second frame's payload.
C32_FramesInOrderNoneDropped ==
    /\ (ReceiveRead /\ rxPre = FirstFrame \o SecondFrame /\ readLen > 0
           /\ buffer_size > 0)
          => /\ ret = "ESP_OK"
             /\ received_len = 1
             /\ buffer[1] = FirstFrame[4]
             /\ rxbuf = SecondFrame
    /\ (LinkCallActed /\ op = "receive" /\ buffer_size > 0
           /\ prevTemp = FirstFrame \o SecondFrame)
          => /\ ret = "ESP_OK"
             /\ received_len = 1
             /\ buffer[1] = SecondFrame[4]

\* The call after the one that returned the first frame's payload finds the
\* channel empty.
C32_Witness ==
    /\ LinkCallActed
    /\ op = "receive"
    /\ calls = 1
    /\ buffer_size > 0
    /\ prevTemp = FirstFrame \o SecondFrame
    /\ buffer[1] = FirstFrame[4]
    /\ Len(rxPre) = 0
    /\ ret = "ESP_ERR_NOT_FOUND"

\* The longest payload a read of TEMP_BUFFER_SIZE - 1 bytes can hold: the
\* bytes between the three header bytes and a terminator at the last index.
MAX_DECODED == TEMP_BUFFER_SIZE - 1 - PAYLOAD_START - 1

\* C33: decoding is total over the bytes received: for every byte sequence
\* of length 0..255 the channel read returns and both values of
\* rssi_enabled, sx1262_receive indexes only positions inside the bytes
\* read, computes a non-negative payload length, and on ESP_OK
\* 1 <= *received_len <= min(buffer_size, 251).
C33_DecodeTotal ==
    ReceiveRead
        => /\ readLen \in 0 .. (TEMP_BUFFER_SIZE - 1)
           /\ readLen = Len(temp_buffer)
           /\ ret \in { "ESP_OK", "ESP_ERR_NOT_FOUND", "ESP_ERR_INVALID_SIZE" }
           /\ (HasTerminator(temp_buffer) /\ FirstTerminator(temp_buffer) >= 4)
                 => LET n == FirstTerminator(temp_buffer)
                        payload_end == IF RssiPresent(n) THEN n - 1 ELSE n
                    IN  /\ n < readLen
                        /\ RssiPresent(n) => (n - 1 >= PAYLOAD_START /\ n - 1 < readLen)
                        /\ payload_end - PAYLOAD_START >= 1
                        /\ payload_end <= readLen
           /\ ret = "ESP_OK"
                 => /\ received_len >= 1
                    /\ received_len <= Min(buffer_size, MAX_DECODED)
                    /\ received_len <= Len(buffer)

\* The longest payload: 255 bytes read, the terminator the last of them.
C33_Witness ==
    /\ ReceiveRead
    /\ readLen = TEMP_BUFFER_SIZE - 1
    /\ HasTerminator(temp_buffer)
    /\ FirstTerminator(temp_buffer) = TEMP_BUFFER_SIZE - 2
    /\ ~handlePre.rssi_enabled
    /\ ret = "ESP_OK"
    /\ received_len = MAX_DECODED

(***************************************************************************)
(* Properties of the UART driver's installation.                           *)
(***************************************************************************)
\* C34: for any sequence of sx1262_init and sx1262_deinit calls on one UART
\* port, the driver is never installed while it is installed and never
\* deleted while it is not, and after each return of sx1262_init the driver
\* is installed exactly when the value returned is ESP_OK.
C34_InstallDiscipline ==
    /\ pc # "aborted"
    /\ (pc = "done" /\ op = "deinit" /\ ~handleNull)
          => uartPre[handlePre.uart_num].installed
    /\ InitDone => (uart[1].installed <=> ret = "ESP_OK")

\* A second sx1262_init on the port, with no sx1262_deinit since the first
\* returned ESP_OK, has called uart_driver_install on the installed driver.
C34_Witness ==
    /\ pc = "aborted"
    /\ op = "init"
    /\ calls = 1
    /\ nInstall = 1
    /\ handlePre.is_configured
    /\ uartPre[cfg.uart_num].installed

\* A wrapper call has returned and the driver state is as it left it.
LoraDone(fn) == lora.lpc = "done" /\ lora.fn = fn

\* The statics of lora_sx1262.cpp now, in the shape of lora.pre.
LoraStatics ==
    [ initialized |-> lora.initialized, radio |-> lora.radio,
      radio_module |-> lora.radio_module, stored |-> lora.stored,
      mode |-> lora.mode ]

\* The functions that use the radio of an initialised driver.
LoraRadioFns ==
    { "standby", "start_receive", "wait_packet", "receive", "transmit" }

\* The parts of C35 that the code and the statement agree on: initialized
\* is true exactly when radio and radio_module are both non-null, and the
\* five functions return LORA_SX1262_ERR_NOT_INIT without using the radio
\* whenever initialized is false.
C35_Common ==
    /\ lora.initialized <=> (lora.radio /\ lora.radio_module)
    /\ \A fn \in LoraRadioFns :
          (LoraDone(fn) /\ ~lora.pre.initialized)
              => /\ lora.err = "LORA_SX1262_ERR_NOT_INIT"
                 /\ ~lora.touched
                 /\ LoraStatics = lora.pre

\* C35: after any sequence of lora_sx1262_init and lora_sx1262_deinit calls
\* initialized is true exactly when both radio and radio_module are
\* non-null; an init that fails with LORA_SX1262_ERR_INIT leaves initialized
\* false with both pointers null; an init refused with
\* LORA_SX1262_ERR_INVALID_ARG changes nothing, so on an initialised driver
\* it leaves initialized true; an init with non-null arguments on an
\* initialised driver returns LORA_SX1262_OK without changing the stored
\* pins, configuration or radio objects; and standby, start_receive,
\* wait_packet, receive and transmit return LORA_SX1262_ERR_NOT_INIT without
\* touching the radio whenever initialized is false.
C35_InitializedIffRadioObjects ==
    /\ C35_Common
    /\ (LoraDone("init") /\ lora.err = "LORA_SX1262_ERR_INIT")
          => (~lora.initialized /\ ~lora.radio /\ ~lora.radio_module
              /\ ~lora.pre.initialized)
    /\ (LoraDone("init") /\ lora.err = "LORA_SX1262_ERR_INVALID_ARG")
          => (LoraStatics = lora.pre /\ ~lora.touched)
    /\ (LoraDone("init") /\ lora.pre.initialized)
          => (/\ lora.err \in { "LORA_SX1262_OK",
                                "LORA_SX1262_ERR_INVALID_ARG" }
              /\ LoraStatics = lora.pre
              /\ ~lora.touched)
    /\ (LoraDone("init") /\ lora.err = "LORA_SX1262_OK")
          => (lora.initialized /\ lora.radio /\ lora.radio_module)

\* An init that failed after it had created both objects and used the
\* radio, following an earlier call that had stored other pins and
\* configuration: the pointers are null again and the new pins and
\* configuration are stored.
C35_Witness ==
    /\ LoraDone("init")
    /\ lora.err = "LORA_SX1262_ERR_INIT"
    /\ lora.touched
    /\ lora.ncalls >= 1
    /\ lora.pre.stored # 0
    /\ lora.stored # lora.pre.stored
    /\ ~lora.radio /\ ~lora.radio_module /\ ~lora.initialized

\* C35 as stated: every failed init leaves initialized false with both
\* pointers null, and every init on an initialised driver returns
\* LORA_SX1262_OK.
C35_AsStated ==
    /\ C35_Common
    /\ (LoraDone("init") /\ lora.err # "LORA_SX1262_OK")
          => (~lora.initialized /\ ~lora.radio /\ ~lora.radio_module)
    /\ (LoraDone("init") /\ lora.pre.initialized)
          => (lora.err = "LORA_SX1262_OK" /\ LoraStatics = lora.pre)

\* The wait of a lora_sx1262_wait_packet call is over, whether the
\* application called it or lora_sx1262_receive did.
LoraWaitOver == lora.lpc \in { "wrap", "done" } /\ lora.outcome # "none"

\* C36: no packet-received interrupt is lost between arming and waiting:
\* when DIO1 fired for a packet after the radio was armed and before
\* lora_sx1262_wait_packet began to wait, that call returns the packet
\* (LORA_SX1262_OK, having read it) rather than running into its timeout.
C36_NoInterruptLost ==
    (LoraWaitOver /\ lora.pending = "packet")
        => (lora.err = "LORA_SX1262_OK" /\ lora.outcome = "packet")

\* What the code does instead: lora_sx1262_wait_packet clears the task's
\* pending notification before it waits, and the call that followed the
\* interrupt ends with LORA_SX1262_ERR_RX_TIMEOUT and the radio in standby.
C36_Witness ==
    /\ LoraDone("wait_packet")
    /\ lora.pending = "packet"
    /\ lora.timeout_ms > 0
    /\ lora.outcome = "timeout"
    /\ lora.err = "LORA_SX1262_ERR_RX_TIMEOUT"
    /\ lora.mode = "standby"

\* uart_write_packet has been called.
WriterWrote == writer.wpc = "task" /\ writer.message_counter > 0

C37_TerminatorLeftOut ==
    /\ WriterWrote
    /\ writer.freq_offset = NEWLINE
    /\ writer.message = << >>
    /\ writer.written = uart_write_header(writer)
    /\ writer.bytes_written = 6

====
